---- MODULE Spec2Model ----
(***************************************************************************)
(* Model of the riboprof-tools footprint framing code:                     *)
(*   - the splice-aware location arithmetic used by the framing code       *)
(*     (pos_into, pos_outof, exon_contigs, first_pos),                     *)
(*   - transcript.rs: splice_compatible,                                   *)
(*   - fp_framing/framing.rs: fp_into_transcript, body_frame, all_if_same, *)
(*     gene_framing, footprint_framing, record_framing,                    *)
(*   - transcript.rs: Transcript::from_bed12 and the Transcriptome,        *)
(*   - bam_utils.rs, metagene.rs, fp_framing/stats.rs and the record loop  *)
(*     of run_fp_framing (fp_framing/mod.rs).                              *)
(* For a pure function a specification draws the arguments of a call in    *)
(* Init and one action performs the call and stores the returned value;    *)
(* the Transcriptome and the record loop are state machines.               *)
(***************************************************************************)
EXTENDS Integers, Sequences, FiniteSets, TLC

VARIABLES
    pc,        \* "input" before the call, afterwards the name of the function that returned
    outer,     \* splice_compatible: the outer location (a transcript's loc)
    inner,     \* splice_compatible: the inner location (a footprint)
    ret,       \* the value returned by the call (None before the call)
    loc,       \* projection round trip: the location
    ipos,      \* projection round trip: the internal coordinate pulled out of loc
    chrpos,    \* projection round trip: result of pos_outof
    trxpos,    \* body_frame: the transcript position argument
    cdsbody,   \* body_frame, gene_framing: the (lower, upper) CDS body window
    trxs,      \* gene_framing: the slice of transcripts of one gene
    fp,        \* gene_framing, footprint_framing: the footprint
    trxome,    \* the Transcriptome
    transcript,    \* Transcriptome::insert: the transcript argument
    record,    \* Transcript::from_bed12: the BED record
    rec,       \* run_fp_framing: the alignment record read last
    tids,      \* run_fp_framing: the reference names of the alignment header, by tid
    lengths,   \* run_fp_framing: config.lengths, the (start, end) of the accepted lengths
    count_multi,   \* run_fp_framing: config.count_multi
    framing_stats, \* run_fp_framing: the FramingStats
    nrec,      \* run_fp_framing: the number of records tallied so far
    table,     \* ASites::from_str: the lines of the A-site table
    asites,    \* ASites::from_str: the result of the parse (None before it)
    qlen,      \* ASites::offset: the fragment length asked for
    profile,   \* LenProfile: a profile of counts
    minmax,    \* LenProfile::new, FramingStats::new: the (min, max) lengths
    flank,     \* FramingStats::new: the (start, end) of the flanking range
    checked,   \* whether the build checks integer overflow (debug builds do)
    fstats,    \* FramingStats::new: the FramingStats built (None before)
    call,      \* the last call on lp or stats and what it returned
    ncall,     \* the number of calls on lp or stats so far
    stream,    \* RecordGroups: what the reads of bam_reader give, in order
    nread,     \* RecordGroups: the number of records read from bam_reader
    next_record,   \* RecordGroups: the look-ahead record
    yielded,   \* RecordGroups: the items next() has yielded so far, in order
    config,    \* bam_suppress_duplicates: the statistics and the output files
    loc_group, \* bam_suppress_duplicates: the location group processed last
    nsites,    \* bam_suppress_duplicates: the number of location groups processed
    sample_map,    \* fastx-split: the SampleMap
    query      \* SampleMap: the index of the last insert, get or get_mut

\* the variables of the A-site table
asitesVars == <<table, asites, qlen>>

\* the variables of the calls on a LenProfile and on a FramingStats
profileVars == <<profile, minmax, flank, checked, fstats, call, ncall>>

\* the variables of the grouping iterator
groupsVars == <<stream, nread, next_record, yielded>>

\* the variables of the duplicate suppression
siteVars == <<config, loc_group, nsites>>

\* the variables of the sample sheet
sampleVars == <<sample_map, query>>

latest == <<groupsVars, siteVars, sampleVars>>

later == <<asitesVars, profileVars, latest>>

vars == <<pc, outer, inner, ret, loc, ipos, chrpos, trxpos, cdsbody, trxs, fp,
          trxome, transcript, record, rec, tids, lengths, count_multi, framing_stats, nrec,
          later>>

----------------------------------------------------------------------------
(* Bounds of the model *)

\* genomic coordinates are 0 .. MaxCoord-1 (exon boundaries 0 .. MaxCoord)
MaxCoord == 6
\* a location has at most MaxExons exons
MaxExons == 3

----------------------------------------------------------------------------
(* Option<T>: None is the empty sequence, Some(x) a one-element sequence *)

None == <<>>

Some(x) == <<x>>

----------------------------------------------------------------------------
(* Locations.  A Spliced location is [refid, strand, exons] where exons is *)
(* the sequence of half-open genomic intervals <<start, end>> in genomic   *)
(* order, each of length >= 1 and separated by introns of length >= 1.     *)

RefIDs == {"chr01", "chr02"}

ReqStrands == {"Forward", "Reverse"}

RECURSIVE SortedSeq(_)
SortedSeq(S) ==
    IF S = {} THEN <<>>
    ELSE LET m == CHOOSE x \in S : \A y \in S : x <= y
         IN <<m>> \o SortedSeq(S \ {m})

\* the exon sequence whose boundaries are the points of B (an even number of them)
ExonsOfBoundaries(B) ==
    LET b == SortedSeq(B)
    IN [k \in 1..(Cardinality(B) \div 2) |-> <<b[2 * k - 1], b[2 * k]>>]

ExonSeqs ==
    { ExonsOfBoundaries(B) :
        B \in { S \in SUBSET (0..MaxCoord) :
                  /\ S # {}
                  /\ Cardinality(S) % 2 = 0
                  /\ Cardinality(S) <= 2 * MaxExons } }

SplicedOn(refids) ==
    [refid : refids, strand : ReqStrands, exons : ExonSeqs]

Spliceds == SplicedOn(RefIDs)

\* Loc::start
start(l) == l.exons[1][1]

\* Loc::length: the genomic span of the location, introns included
length(l) == l.exons[Len(l.exons)][2] - l.exons[1][1]

RECURSIVE exon_length_from(_, _)
exon_length_from(exons, k) ==
    IF k > Len(exons) THEN 0
    ELSE (exons[k][2] - exons[k][1]) + exon_length_from(exons, k + 1)

\* Spliced::exon_total_length
exon_total_length(l) == exon_length_from(l.exons, 1)

\* Strand negation
neg(s) == IF s = "Forward" THEN "Reverse" ELSE "Forward"

\* ReqStrand::on_strand: the strand of something lying on strand t of a location on strand s
on_strand(s, t) == IF s = "Forward" THEN t ELSE neg(t)

\* Pos::new
Pos(refid, p, strand) == [refid |-> refid, pos |-> p, strand |-> strand]

\* Spliced::first_pos: the 5'-most genomic position of the location
first_pos(l) ==
    IF l.strand = "Forward"
    THEN Pos(l.refid, start(l), l.strand)
    ELSE Pos(l.refid, start(l) + length(l) - 1, l.strand)

\* Spliced::exon_contigs: the exons as contigs, in order along the location's strand
exon_contigs(l) ==
    LET n == Len(l.exons)
        contig(k) == [refid  |-> l.refid,
                      start  |-> l.exons[k][1],
                      length |-> l.exons[k][2] - l.exons[k][1],
                      strand |-> l.strand]
    IN IF l.strand = "Forward"
       THEN [k \in 1..n |-> contig(k)]
       ELSE [k \in 1..n |-> contig(n + 1 - k)]

\* Contig::first_pos
contig_first_pos(c) ==
    IF c.strand = "Forward"
    THEN Pos(c.refid, c.start, c.strand)
    ELSE Pos(c.refid, c.start + c.length - 1, c.strand)

\* Contig::last_pos
contig_last_pos(c) ==
    IF c.strand = "Forward"
    THEN Pos(c.refid, c.start + c.length - 1, c.strand)
    ELSE Pos(c.refid, c.start, c.strand)

RECURSIVE pos_into_exon(_, _, _, _)
pos_into_exon(l, p, k, offset_before) ==
    IF k > Len(l.exons) THEN None
    ELSE LET ex == l.exons[k]
         IN IF p.pos >= ex[1] /\ p.pos < ex[2]
            THEN LET offset == offset_before + p.pos - ex[1]
                 IN IF l.strand = "Forward"
                    THEN Some([pos |-> offset, strand |-> p.strand])
                    ELSE Some([pos    |-> exon_total_length(l) - (offset + 1),
                               strand |-> neg(p.strand)])
            ELSE pos_into_exon(l, p, k + 1, offset_before + (ex[2] - ex[1]))

\* Spliced::pos_into: a genomic position expressed in the location's own coordinates
pos_into(l, p) ==
    IF l.refid # p.refid \/ p.pos < start(l)
    THEN None
    ELSE pos_into_exon(l, p, 1, 0)

RECURSIVE pos_outof_exon(_, _, _, _)
pos_outof_exon(l, strand, k, offset) ==
    IF k > Len(l.exons) THEN None
    ELSE LET ex == l.exons[k]
         IN IF offset < ex[2] - ex[1]
            THEN Some(Pos(l.refid, ex[1] + offset, on_strand(l.strand, strand)))
            ELSE pos_outof_exon(l, strand, k + 1, offset - (ex[2] - ex[1]))

pos_outof_reverse_unflipped(l, p) ==
    IF p.pos < 0 THEN None ELSE pos_outof_exon(l, p.strand, 1, p.pos)

\* Spliced::pos_outof: a position in the location's own coordinates as a genomic position
pos_outof(l, p) ==
    LET offset == IF l.strand = "Forward"
                  THEN p.pos
                  ELSE exon_total_length(l) - (p.pos + 1)
    IN IF offset < 0 THEN None ELSE pos_outof_exon(l, p.strand, 1, offset)

----------------------------------------------------------------------------
(* transcript.rs: splice_compatible *)

RECURSIVE splice_compatible_rest_no_abut(_, _, _, _)
splice_compatible_rest_no_abut(out, inner_contigs, k, prev_end) ==
    IF k > Len(inner_contigs) THEN TRUE
    ELSE LET c   == inner_contigs[k]
             cs  == pos_into(out, contig_first_pos(c))
             ce  == pos_into(out, contig_last_pos(c))
         IN IF cs = None THEN FALSE
            ELSE IF ce = None THEN FALSE
            ELSE IF 1 + ce[1].pos - cs[1].pos # c.length THEN FALSE
            ELSE splice_compatible_rest_no_abut(out, inner_contigs, k + 1, ce[1].pos)

\* the loop over the second and later exons of inner
RECURSIVE splice_compatible_rest(_, _, _, _)
splice_compatible_rest(out, inner_contigs, k, prev_end) ==
    IF k > Len(inner_contigs) THEN TRUE
    ELSE LET c   == inner_contigs[k]
             cs  == pos_into(out, contig_first_pos(c))
             ce  == pos_into(out, contig_last_pos(c))
         IN IF cs = None THEN FALSE
            ELSE IF cs[1].pos # prev_end + 1 THEN FALSE
            ELSE IF ce = None THEN FALSE
            ELSE IF 1 + ce[1].pos - cs[1].pos # c.length THEN FALSE
            ELSE splice_compatible_rest(out, inner_contigs, k + 1, ce[1].pos)

splice_compatible_length_off_by_one(out, inn) ==
    LET inner_contigs == exon_contigs(inn)
    IN IF Len(inner_contigs) = 0 THEN FALSE
       ELSE LET c0   == inner_contigs[1]
                c0s  == pos_into(out, contig_first_pos(c0))
                c0e  == pos_into(out, contig_last_pos(c0))
            IN IF c0s = None THEN FALSE
               ELSE IF c0s[1].strand # "Forward" THEN FALSE
               ELSE IF c0e = None THEN FALSE
               ELSE IF c0e[1].pos - c0s[1].pos # c0.length THEN FALSE
               ELSE splice_compatible_rest(out, inner_contigs, 2, c0e[1].pos)

splice_compatible(out, inn) ==
    LET inner_contigs == exon_contigs(inn)
    IN IF Len(inner_contigs) = 0 THEN FALSE
       ELSE LET c0   == inner_contigs[1]
                c0s  == pos_into(out, contig_first_pos(c0))
                c0e  == pos_into(out, contig_last_pos(c0))
            IN IF c0s = None THEN FALSE
               ELSE IF c0s[1].strand # "Forward" THEN FALSE
               ELSE IF c0e = None THEN FALSE
               ELSE IF 1 + c0e[1].pos - c0s[1].pos # c0.length THEN FALSE
               ELSE splice_compatible_rest(out, inner_contigs, 2, c0e[1].pos)

----------------------------------------------------------------------------
(* Transcripts and transcript positions *)

\* struct Transcript: cds is an Option of the half-open range <<start, end>>
Transcript(gene, trxname, l, cds) ==
    [gene |-> gene, trxname |-> trxname, loc |-> l, cds |-> cds]

\* TrxPos::new
TrxPos(trx, p) == [transcript |-> trx, pos |-> p]

\* TrxPos::offset_from_cds_start
offset_from_cds_start(tp) ==
    IF tp.transcript.cds = None THEN None
    ELSE Some(tp.pos - tp.transcript.cds[1][1])

\* TrxPos::offset_from_cds_end
offset_from_cds_end(tp) ==
    IF tp.transcript.cds = None THEN None
    ELSE Some(tp.pos - tp.transcript.cds[1][2])

\* TrxPos::cds_frame
cds_frame(tp) ==
    IF tp.transcript.cds = None THEN None
    ELSE Some((tp.pos - tp.transcript.cds[1][1]) % 3)

----------------------------------------------------------------------------
(* fp_framing/framing.rs *)

\* the values of a sequence of Options that are present, in order (filter_map)
RECURSIVE cat_options(_)
cat_options(opts) ==
    IF opts = <<>> THEN <<>>
    ELSE Head(opts) \o cat_options(Tail(opts))

all_if_same_first(xs) ==
    IF xs = <<>> THEN None ELSE Some(xs[1])

all_if_same(xs) ==
    IF xs = <<>> THEN None
    ELSE IF \A k \in 2..Len(xs) : xs[k] = xs[1]
         THEN Some(xs[1])
         ELSE None

body_frame_strict(body, tp) ==
    LET vs_start == offset_from_cds_start(tp)
        vs_end   == offset_from_cds_end(tp)
    IN IF vs_start = None THEN None
       ELSE IF vs_end = None THEN None
       ELSE IF vs_start[1] > body[1] /\ vs_end[1] <= body[2]
            THEN cds_frame(tp)
            ELSE None

body_frame(body, tp) ==
    LET vs_start == offset_from_cds_start(tp)
        vs_end   == offset_from_cds_end(tp)
    IN IF vs_start = None THEN None
       ELSE IF vs_end = None THEN None
       ELSE IF vs_start[1] >= body[1] /\ vs_end[1] <= body[2]
            THEN cds_frame(tp)
            ELSE None

\* the outcome of a call that may hit a failing expect()/assert!()
Returned(v) == [panic |-> FALSE, val |-> v]

Panicked == [panic |-> TRUE, val |-> None]

fp_into_transcript_leftmost(f, trx) ==
    IF splice_compatible(trx.loc, f)
    THEN LET p == pos_into(trx.loc, Pos(f.refid, start(f), f.strand))
         IN IF p = None THEN Panicked
            ELSE IF p[1].strand # "Forward" THEN Panicked
            ELSE IF ~(p[1].pos >= 0) THEN Panicked
            ELSE Returned(Some(TrxPos(trx, p[1].pos)))
    ELSE Returned(None)

fp_into_transcript(f, trx) ==
    IF splice_compatible(trx.loc, f)
    THEN LET p == pos_into(trx.loc, first_pos(f))
         IN IF p = None THEN Panicked
            ELSE IF p[1].strand # "Forward" THEN Panicked
            ELSE IF ~(p[1].pos >= 0) THEN Panicked
            ELSE Returned(Some(TrxPos(trx, p[1].pos)))
    ELSE Returned(None)

\* enum GeneFrameResult; good carries the GeneFraming payload of Good
NoCompatible == [tag |-> "NoCompatible", good |-> None]

Ambig == [tag |-> "Ambig", good |-> None]

Good(gf) == [tag |-> "Good", good |-> Some(gf)]

\* struct GeneFraming
GeneFraming(gene, vs_cds_start, vs_cds_end, frame, fp_length) ==
    [gene |-> gene, vs_cds_start |-> vs_cds_start, vs_cds_end |-> vs_cds_end,
     frame |-> frame, fp_length |-> fp_length]

gene_framing_termini_ambig_over_two(body, gene, fp_length, termini) ==
    IF termini = <<>> THEN NoCompatible
    ELSE LET n == Len(termini)
             vs_cds_start ==
                 all_if_same(cat_options([k \in 1..n |-> offset_from_cds_start(termini[k])]))
             vs_cds_end ==
                 all_if_same(cat_options([k \in 1..n |-> offset_from_cds_end(termini[k])]))
             frames == cat_options([k \in 1..n |-> body_frame(body, termini[k])])
         IN IF Len(frames) > 2 THEN Ambig
            ELSE Good(GeneFraming(gene,
                                  vs_cds_start,
                                  IF vs_cds_end = None THEN None ELSE Some(vs_cds_end[1] + 3),
                                  all_if_same(frames),
                                  fp_length))

gene_framing_termini_no_frames(body, gene, fp_length, termini) ==
    LET n == Len(termini)
        vs_cds_start ==
            all_if_same(cat_options([k \in 1..n |-> offset_from_cds_start(termini[k])]))
        vs_cds_end ==
            all_if_same(cat_options([k \in 1..n |-> offset_from_cds_end(termini[k])]))
        frames == cat_options([k \in 1..n |-> body_frame(body, termini[k])])
    IN IF frames = <<>> THEN NoCompatible
       ELSE IF Len(frames) > 1 THEN Ambig
       ELSE Good(GeneFraming(gene,
                             vs_cds_start,
                             IF vs_cds_end = None THEN None ELSE Some(vs_cds_end[1] + 3),
                             all_if_same(frames),
                             fp_length))

\* gene_framing once the termini are collected
gene_framing_termini(body, gene, fp_length, termini) ==
    IF termini = <<>> THEN NoCompatible
    ELSE LET n == Len(termini)
             vs_cds_start ==
                 all_if_same(cat_options([k \in 1..n |-> offset_from_cds_start(termini[k])]))
             vs_cds_end ==
                 all_if_same(cat_options([k \in 1..n |-> offset_from_cds_end(termini[k])]))
             frames == cat_options([k \in 1..n |-> body_frame(body, termini[k])])
         IN IF Len(frames) > 1 THEN Ambig
            ELSE Good(GeneFraming(gene,
                                  vs_cds_start,
                                  IF vs_cds_end = None THEN None ELSE Some(vs_cds_end[1] + 3),
                                  all_if_same(frames),
                                  fp_length))

gene_framing(body, ts, f) ==
    IF Len(ts) = 0 THEN Returned(NoCompatible)
    ELSE LET gene        == ts[1].gene
             fp_length   == exon_total_length(f)
             projections == [k \in 1..Len(ts) |-> fp_into_transcript(f, ts[k])]
         IN IF \E k \in 1..Len(ts) : projections[k].panic
            THEN Panicked
            ELSE LET termini == cat_options([k \in 1..Len(ts) |-> projections[k].val])
                 IN Returned(gene_framing_termini(body, gene, fp_length, termini))

----------------------------------------------------------------------------
(* transcript.rs: Transcriptome over the interval index AnnotMap *)

\* a HashMap is a function on the set of its keys
EmptyMap == [k \in {} |-> k]

\* HashMap::insert
Put(m, key, v) == [k \in (DOMAIN m) \cup {key} |-> IF k = key THEN v ELSE m[k]]

\* AnnotMap::new: the entries of the interval index, in insertion order
AnnotMap_new == <<>>

\* AnnotMap::insert_at: data indexed under the genomic extent of l on l's reference
insert_at(m, data, l) ==
    Append(m, [data  |-> data,
               refid |-> l.refid,
               start |-> start(l),
               end   |-> start(l) + length(l)])

\* AnnotMap::find: the entries on l's reference whose extent intersects the extent of l
find(m, l) ==
    LET qstart == start(l)
        qend   == start(l) + length(l)
    IN SelectSeq(m, LAMBDA e : e.refid = l.refid /\ e.start < qend /\ qstart < e.end)

\* Transcriptome::new
Transcriptome_new ==
    [gene_to_trxnames      |-> EmptyMap,
     trxname_to_gene       |-> EmptyMap,
     trxname_to_transcript |-> EmptyMap,
     trxname_by_location   |-> AnnotMap_new]

\* Result<T, E>
Ok(v) == [ok |-> TRUE, val |-> Some(v), err |-> ""]

Err(e) == [ok |-> FALSE, val |-> None, err |-> e]

insert_without_location(tome, t) ==
    IF t.trxname \in DOMAIN tome.trxname_to_transcript
    THEN [result |-> Err("TrxExists"), trxome |-> tome]
    ELSE [result |-> Ok(t.trxname),
          trxome |->
              [gene_to_trxnames |->
                   Put(tome.gene_to_trxnames, t.gene,
                       Append(IF t.gene \in DOMAIN tome.gene_to_trxnames
                              THEN tome.gene_to_trxnames[t.gene]
                              ELSE <<>>,
                              t.trxname)),
               trxname_to_gene |-> Put(tome.trxname_to_gene, t.trxname, t.gene),
               trxname_by_location |-> tome.trxname_by_location,
               trxname_to_transcript |-> Put(tome.trxname_to_transcript, t.trxname, t)]]

insert_overwriting(tome, t) ==
    [result |-> Ok(t.trxname),
     trxome |->
         [gene_to_trxnames |->
              Put(tome.gene_to_trxnames, t.gene,
                  Append(IF t.gene \in DOMAIN tome.gene_to_trxnames
                         THEN tome.gene_to_trxnames[t.gene]
                         ELSE <<>>,
                         t.trxname)),
          trxname_to_gene |-> Put(tome.trxname_to_gene, t.trxname, t.gene),
          trxname_by_location |-> insert_at(tome.trxname_by_location, t.trxname, t.loc),
          trxname_to_transcript |-> Put(tome.trxname_to_transcript, t.trxname, t)]]

insert_registers_before_check(tome, t) ==
    LET registered ==
            [tome EXCEPT !.gene_to_trxnames =
                             Put(@, t.gene,
                                 Append(IF t.gene \in DOMAIN @ THEN @[t.gene] ELSE <<>>,
                                        t.trxname)),
                         !.trxname_to_gene = Put(@, t.trxname, t.gene)]
    IN IF t.trxname \in DOMAIN tome.trxname_to_transcript
       THEN [result |-> Err("TrxExists"), trxome |-> registered]
       ELSE [result |-> Ok(t.trxname),
             trxome |->
                 [registered EXCEPT
                     !.trxname_by_location = insert_at(@, t.trxname, t.loc),
                     !.trxname_to_transcript = Put(@, t.trxname, t)]]

\* Transcriptome::insert: the result and the transcriptome afterwards
insert(tome, t) ==
    IF t.trxname \in DOMAIN tome.trxname_to_transcript
    THEN [result |-> Err("TrxExists"), trxome |-> tome]
    ELSE [result |-> Ok(t.trxname),
          trxome |->
              [gene_to_trxnames |->
                   Put(tome.gene_to_trxnames, t.gene,
                       Append(IF t.gene \in DOMAIN tome.gene_to_trxnames
                              THEN tome.gene_to_trxnames[t.gene]
                              ELSE <<>>,
                              t.trxname)),
               trxname_to_gene |-> Put(tome.trxname_to_gene, t.trxname, t.gene),
               trxname_by_location |-> insert_at(tome.trxname_by_location, t.trxname, t.loc),
               trxname_to_transcript |-> Put(tome.trxname_to_transcript, t.trxname, t)]]

find_at_loc_any_reference(tome, l) ==
    LET qstart == start(l)
        qend   == start(l) + length(l)
        found  == SelectSeq(tome.trxname_by_location,
                            LAMBDA e : e.start < qend /\ qstart < e.end)
    IN IF \E k \in 1..Len(found) : found[k].data \notin DOMAIN tome.trxname_to_transcript
       THEN Panicked
       ELSE Returned([k \in 1..Len(found) |-> tome.trxname_to_transcript[found[k].data]])

\* Transcriptome::find_at_loc: the transcripts of the index entries found, in
\* the order the index iterates them; expect() fails on an entry without transcript
find_at_loc(tome, l) ==
    LET found == find(tome.trxname_by_location, l)
    IN IF \E k \in 1..Len(found) : found[k].data \notin DOMAIN tome.trxname_to_transcript
       THEN Panicked
       ELSE Returned([k \in 1..Len(found) |-> tome.trxname_to_transcript[found[k].data]])

----------------------------------------------------------------------------
(* transcript.rs: Transcript::from_bed12 *)

\* Spliced::with_lengths_starts: exon k covers start + exon_starts[k] for
\* exon_lengths[k] bases; exons are non-empty and separated by introns of
\* at least one base, the first one starting at offset 0
with_lengths_starts(refid, st, exon_lengths, exon_starts, strand) ==
    IF Len(exon_starts) < 1 THEN Err("NoExons")
    ELSE IF exon_starts[1] # 0 THEN Err("BlockStart")
    ELSE IF Len(exon_starts) # Len(exon_lengths) THEN Err("BlockMismatch")
    ELSE IF \E k \in 1..Len(exon_lengths) : exon_lengths[k] = 0 THEN Err("ExonLength")
    ELSE IF \E k \in 2..Len(exon_starts) :
                exon_starts[k - 1] + exon_lengths[k - 1] >= exon_starts[k]
         THEN Err("BlockOverlap")
    ELSE Ok([refid  |-> refid,
             strand |-> strand,
             exons  |-> [k \in 1..Len(exon_starts) |->
                            <<st + exon_starts[k], st + exon_starts[k] + exon_lengths[k]>>]])

\* a BED record: chrom, start, the optional name and the auxiliary columns
\* strand, thickStart, thickEnd, blockCount, blockSizes, blockStarts (Options)
BedRecord(chrom, st, name, strand, thick_start, thick_end, block_count, block_sizes, block_starts) ==
    [chrom |-> chrom, start |-> st, name |-> name, strand |-> strand,
     thick_start |-> thick_start, thick_end |-> thick_end,
     block_count |-> block_count, block_sizes |-> block_sizes, block_starts |-> block_starts]

\* Transcript::loc_from_bed
loc_from_bed(r) ==
    IF r.block_count = None THEN Err("No splicing blocks")
    ELSE IF r.block_sizes = None THEN Err("No splicing block sizes")
    ELSE IF r.block_starts = None THEN Err("No splicing block starts")
    ELSE IF Len(r.block_sizes[1]) # r.block_count[1] \/ Len(r.block_starts[1]) # r.block_count[1]
         THEN Err("block count")
    ELSE IF r.strand = None THEN Err("No strand")
    ELSE IF r.strand[1] \notin {"+", "-"} THEN Err("Bad strand")
    ELSE LET spliced == with_lengths_starts(r.chrom, r.start, r.block_sizes[1], r.block_starts[1],
                                            IF r.strand[1] = "+" THEN "Forward" ELSE "Reverse")
         IN IF spliced.ok THEN spliced ELSE Err("BedSplicing")

min(a, b) == IF a <= b THEN a ELSE b

max(a, b) == IF a >= b THEN a ELSE b

cds_from_bed_forward_only(r, l) ==
    IF r.thick_start = None THEN Ok(None)
    ELSE IF r.thick_end = None THEN Ok(None)
    ELSE LET thick_start == r.thick_start[1]
             thick_end   == r.thick_end[1]
         IN IF thick_start >= thick_end THEN Ok(None)
            ELSE LET left == pos_into(l, Pos(l.refid, thick_start, l.strand))
                     at_end == pos_into(l, Pos(l.refid, thick_end, l.strand))
                     before_end == pos_into(l, Pos(l.refid, thick_end - 1, l.strand))
                 IN IF left = None THEN Err("thickStart not in annot")
                    ELSE IF at_end = None /\ before_end = None
                         THEN Err("thickEnd-1 not in annot")
                    ELSE LET left_pos  == left[1].pos
                             right_pos == IF at_end # None
                                          THEN at_end[1].pos - 1
                                          ELSE before_end[1].pos
                             first     == min(left_pos, right_pos)
                             last      == max(left_pos, right_pos)
                         IN Ok(Some(<<first, last + 1>>))

\* Transcript::cds_from_bed
cds_from_bed(r, l) ==
    IF r.thick_start = None THEN Ok(None)
    ELSE IF r.thick_end = None THEN Ok(None)
    ELSE LET thick_start == r.thick_start[1]
             thick_end   == r.thick_end[1]
         IN IF thick_start >= thick_end THEN Ok(None)
            ELSE LET left == pos_into(l, Pos(l.refid, thick_start, l.strand))
                     at_end == pos_into(l, Pos(l.refid, thick_end, l.strand))
                     before_end == pos_into(l, Pos(l.refid, thick_end - 1, l.strand))
                 IN IF left = None THEN Err("thickStart not in annot")
                    ELSE IF at_end = None /\ before_end = None
                         THEN Err("thickEnd-1 not in annot")
                    ELSE LET left_pos  == left[1].pos
                             right_pos == IF at_end # None
                                          THEN IF l.strand = "Forward"
                                               THEN at_end[1].pos - 1
                                               ELSE at_end[1].pos + 1
                                          ELSE before_end[1].pos
                             first     == min(left_pos, right_pos)
                             last      == max(left_pos, right_pos)
                         IN Ok(Some(<<first, last + 1>>))

\* Transcript::from_bed12
from_bed12(r) ==
    LET l == loc_from_bed(r)
    IN IF ~l.ok THEN Err(l.err)
       ELSE LET cds == cds_from_bed(r, l.val[1])
            IN IF ~cds.ok THEN Err(cds.err)
               ELSE IF r.name = None THEN Err("No name")
               ELSE Ok(Transcript(r.name[1], r.name[1], l.val[1], cds.val[1]))

----------------------------------------------------------------------------
(* fp_framing/framing.rs: footprint_framing *)

\* Transcript::is_coding
is_coding(t) == t.cds # None

\* Transcript::group_by_gene: gene -> the transcripts of that gene, in iteration order
group_by_gene(ts) ==
    [g \in { ts[k].gene : k \in 1..Len(ts) } |-> SelectSeq(ts, LAMBDA t : t.gene = g)]

\* enum FpFrameResult; gene carries the GeneFrameResult payload of Gene
Gene(gfr) == [tag |-> "Gene", gene |-> Some(gfr)]

NoGene == [tag |-> "NoGene", gene |-> None]

NoncodingOnly == [tag |-> "NoncodingOnly", gene |-> None]

NoncodingOverlap == [tag |-> "NoncodingOverlap", gene |-> None]

MultiCoding == [tag |-> "MultiCoding", gene |-> None]

footprint_framing_found_first_gene(found, f, body) ==
    LET gene_sets == group_by_gene(found)
    IN IF DOMAIN gene_sets = {}
       THEN Returned(NoGene)
       ELSE LET ts == gene_sets[found[1].gene]
                coding_trxs == SelectSeq(ts, is_coding)
            IN IF coding_trxs = <<>>
               THEN Returned(NoncodingOnly)
               ELSE LET gfr == gene_framing(body, coding_trxs, f)
                    IN IF gfr.panic THEN Panicked ELSE Returned(Gene(gfr.val))

footprint_framing_found_any_coding(found, f, body) ==
    LET gene_sets == group_by_gene(found)
    IN IF Cardinality(DOMAIN gene_sets) > 1
       THEN LET coding == { g \in DOMAIN gene_sets :
                              \E k \in 1..Len(gene_sets[g]) : is_coding(gene_sets[g][k]) }
            IN IF coding # {}
               THEN Returned(MultiCoding)
               ELSE Returned(NoncodingOnly)
       ELSE IF DOMAIN gene_sets # {}
       THEN LET ts == gene_sets[CHOOSE g \in DOMAIN gene_sets : TRUE]
                coding_trxs == SelectSeq(ts, is_coding)
            IN IF coding_trxs = <<>>
               THEN Returned(NoncodingOnly)
               ELSE LET gfr == gene_framing(body, coding_trxs, f)
                    IN IF gfr.panic THEN Panicked ELSE Returned(Gene(gfr.val))
       ELSE Returned(NoGene)

\* as footprint_framing_found, keeping only the transcripts found that have an
\* exon overlapping an exon of the footprint
footprint_framing_found_exon_exact(found, f, body) ==
    LET shares(t) == \E i \in 1..Len(t.loc.exons), j \in 1..Len(f.exons) :
                        /\ t.loc.exons[i][1] < f.exons[j][2]
                        /\ f.exons[j][1] < t.loc.exons[i][2]
        gene_sets == group_by_gene(SelectSeq(found, shares))
    IN IF Cardinality(DOMAIN gene_sets) > 1
       THEN LET coding == { g \in DOMAIN gene_sets :
                              \E k \in 1..Len(gene_sets[g]) : is_coding(gene_sets[g][k]) }
            IN IF coding = DOMAIN gene_sets
               THEN Returned(MultiCoding)
               ELSE IF coding # {}
               THEN Returned(NoncodingOverlap)
               ELSE Returned(NoncodingOnly)
       ELSE IF DOMAIN gene_sets # {}
       THEN LET ts == gene_sets[CHOOSE g \in DOMAIN gene_sets : TRUE]
                coding_trxs == SelectSeq(ts, is_coding)
            IN IF coding_trxs = <<>>
               THEN Returned(NoncodingOnly)
               ELSE LET gfr == gene_framing(body, coding_trxs, f)
                    IN IF gfr.panic THEN Panicked ELSE Returned(Gene(gfr.val))
       ELSE Returned(NoGene)

\* footprint_framing on the transcripts found yielded by find_at_loc
footprint_framing_found(found, f, body) ==
    LET gene_sets == group_by_gene(found)
    IN IF Cardinality(DOMAIN gene_sets) > 1
       THEN LET coding == { g \in DOMAIN gene_sets :
                              \E k \in 1..Len(gene_sets[g]) : is_coding(gene_sets[g][k]) }
            IN IF coding = DOMAIN gene_sets
               THEN Returned(MultiCoding)
               ELSE IF coding # {}
               THEN Returned(NoncodingOverlap)
               ELSE Returned(NoncodingOnly)
       ELSE IF DOMAIN gene_sets # {}
       THEN LET ts == gene_sets[CHOOSE g \in DOMAIN gene_sets : TRUE]
                coding_trxs == SelectSeq(ts, is_coding)
            IN IF coding_trxs = <<>>
               THEN Returned(NoncodingOnly)
               ELSE LET gfr == gene_framing(body, coding_trxs, f)
                    IN IF gfr.panic THEN Panicked ELSE Returned(Gene(gfr.val))
       ELSE Returned(NoGene)

\* footprint_framing with the index iterating in insertion order
footprint_framing(tome, f, body) ==
    LET found == find_at_loc(tome, f)
    IN IF found.panic THEN Panicked ELSE footprint_framing_found(found.val, f, body)

----------------------------------------------------------------------------
(* bam_utils.rs: the footprint of an alignment record *)

\* a CIGAR operation
Cigar(op, len) == [op |-> op, len |-> len]

\* the fields of a bam::Record the framing reads: tid (-1 when unmapped), pos,
\* is_reverse, the CIGAR string and the integer tags NH and HI (Options)
BamRecord(tid, p, reverse, cigar, nh, hi) ==
    [tid |-> tid, pos |-> p, reverse |-> reverse, cigar |-> cigar, nh |-> nh, hi |-> hi]

\* Tids::get
Tids_get(ts, tid) == IF tid + 1 \in 1..Len(ts) THEN Some(ts[tid + 1]) ELSE None

\* the loop of cigar_to_lengths_starts from the k-th operation on
RECURSIVE cigar_blocks_from(_, _, _, _, _, _)
cigar_blocks_from(cigar, k, curr_start, curr_end, lengths_acc, starts_acc) ==
    IF k > Len(cigar)
    THEN IF curr_end > curr_start
         THEN <<Append(lengths_acc, curr_end - curr_start), Append(starts_acc, curr_start)>>
         ELSE <<lengths_acc, starts_acc>>
    ELSE LET c == cigar[k]
         IN IF c.op \in {"Match", "Del", "Equal", "Diff"}
            THEN cigar_blocks_from(cigar, k + 1, curr_start, curr_end + c.len,
                                   lengths_acc, starts_acc)
            ELSE IF c.op = "RefSkip"
            THEN IF curr_end > curr_start
                 THEN cigar_blocks_from(cigar, k + 1, curr_end + c.len, curr_end + c.len,
                                        Append(lengths_acc, curr_end - curr_start),
                                        Append(starts_acc, curr_start))
                 ELSE cigar_blocks_from(cigar, k + 1, curr_end + c.len, curr_end + c.len,
                                        lengths_acc, starts_acc)
            ELSE cigar_blocks_from(cigar, k + 1, curr_start, curr_end, lengths_acc, starts_acc)

\* cigar_to_lengths_starts: <<lengths, starts>> of the aligned blocks
cigar_to_lengths_starts(cigar) == cigar_blocks_from(cigar, 1, 0, 0, <<>>, <<>>)

\* bam_to_spliced: Ok(None) for an unmapped record, Ok(Some(footprint)) or an error
bam_to_spliced(ts, r) ==
    IF r.tid < 0 THEN Ok(None)
    ELSE LET blocks == cigar_to_lengths_starts(r.cigar)
             refid  == Tids_get(ts, r.tid)
         IN IF refid = None THEN Err("BAM target ID out of range")
            ELSE LET spliced == with_lengths_starts(refid[1], r.pos, blocks[1], blocks[2],
                                                    IF r.reverse THEN "Reverse" ELSE "Forward")
                 IN IF ~spliced.ok THEN Err(spliced.err)
                    ELSE Ok(Some(spliced.val[1]))

----------------------------------------------------------------------------
(* fp_framing/framing.rs: record_framing *)

\* is_single_hit
is_single_hit(r) == IF r.nh # None THEN r.nh[1] = 1 ELSE TRUE

\* is_first_hit
is_first_hit(r) == r.hi = Some(1)

\* enum BamFrameResult; fp carries the FpFrameResult payload of Fp
NoHit == [tag |-> "NoHit", fp |-> None]

MultiHit == [tag |-> "MultiHit", fp |-> None]

TooShort == [tag |-> "TooShort", fp |-> None]

TooLong == [tag |-> "TooLong", fp |-> None]

Fp(ffr) == [tag |-> "Fp", fp |-> Some(ffr)]

record_framing_first_hit_always(tome, ts, r, lens, body, multi) ==
    IF ~(is_single_hit(r) \/ is_first_hit(r))
    THEN Returned(Ok(MultiHit))
    ELSE LET spliced == bam_to_spliced(ts, r)
         IN IF ~spliced.ok THEN Returned(Err(spliced.err))
            ELSE IF spliced.val[1] = None THEN Returned(Ok(NoHit))
            ELSE LET f      == spliced.val[1][1]
                     fp_len == exon_total_length(f)
                 IN IF fp_len < lens[1] THEN Returned(Ok(TooShort))
                    ELSE IF fp_len > lens[2] THEN Returned(Ok(TooLong))
                    ELSE LET ffr == footprint_framing(tome, f, body)
                         IN IF ffr.panic THEN Panicked ELSE Returned(Ok(Fp(ffr.val)))

record_framing_span_length(tome, ts, r, lens, body, multi) ==
    IF ~(is_single_hit(r) \/ (multi /\ is_first_hit(r)))
    THEN Returned(Ok(MultiHit))
    ELSE LET spliced == bam_to_spliced(ts, r)
         IN IF ~spliced.ok THEN Returned(Err(spliced.err))
            ELSE IF spliced.val[1] = None THEN Returned(Ok(NoHit))
            ELSE LET f      == spliced.val[1][1]
                     fp_len == length(f)
                 IN IF fp_len < lens[1] THEN Returned(Ok(TooShort))
                    ELSE IF fp_len > lens[2] THEN Returned(Ok(TooLong))
                    ELSE LET ffr == footprint_framing(tome, f, body)
                         IN IF ffr.panic THEN Panicked ELSE Returned(Ok(Fp(ffr.val)))

record_framing_unmapped_is_error(tome, ts, r, lens, body, multi) ==
    IF ~(is_single_hit(r) \/ (multi /\ is_first_hit(r)))
    THEN Returned(Ok(MultiHit))
    ELSE LET spliced == bam_to_spliced(ts, r)
         IN IF ~spliced.ok THEN Returned(Err(spliced.err))
            ELSE IF spliced.val[1] = None THEN Returned(Err("unmapped"))
            ELSE LET f      == spliced.val[1][1]
                     fp_len == exon_total_length(f)
                 IN IF fp_len < lens[1] THEN Returned(Ok(TooShort))
                    ELSE IF fp_len > lens[2] THEN Returned(Ok(TooLong))
                    ELSE LET ffr == footprint_framing(tome, f, body)
                         IN IF ffr.panic THEN Panicked ELSE Returned(Ok(Fp(ffr.val)))

record_framing_no_window(tome, ts, r, lens, body, multi) ==
    IF ~(is_single_hit(r) \/ (multi /\ is_first_hit(r)))
    THEN Returned(Ok(MultiHit))
    ELSE LET spliced == bam_to_spliced(ts, r)
         IN IF ~spliced.ok THEN Returned(Err(spliced.err))
            ELSE IF spliced.val[1] = None THEN Returned(Ok(NoHit))
            ELSE LET ffr == footprint_framing(tome, spliced.val[1][1], body)
                 IN IF ffr.panic THEN Panicked ELSE Returned(Ok(Fp(ffr.val)))

\* record_framing: lens is the (start, end) of the Range of accepted lengths
record_framing(tome, ts, r, lens, body, multi) ==
    IF ~(is_single_hit(r) \/ (multi /\ is_first_hit(r)))
    THEN Returned(Ok(MultiHit))
    ELSE LET spliced == bam_to_spliced(ts, r)
         IN IF ~spliced.ok THEN Returned(Err(spliced.err))
            ELSE IF spliced.val[1] = None THEN Returned(Ok(NoHit))
            ELSE LET f      == spliced.val[1][1]
                     fp_len == exon_total_length(f)
                 IN IF fp_len < lens[1] THEN Returned(Ok(TooShort))
                    ELSE IF fp_len > lens[2] THEN Returned(Ok(TooLong))
                    ELSE LET ffr == footprint_framing(tome, f, body)
                         IN IF ffr.panic THEN Panicked ELSE Returned(Ok(Fp(ffr.val)))

----------------------------------------------------------------------------
(* metagene.rs: LenProfile, Frame, Metagene *)

\* n copies of x (vec![x; n])
Repeat(x, n) == [k \in 1..n |-> x]

\* LenProfile::new
LenProfile_new(minlen, maxlen, initial) ==
    LET nlen == IF minlen > maxlen THEN 0 ELSE 1 + maxlen - minlen
    IN [short |-> initial, len_vec |-> Repeat(initial, nlen), long |-> initial, minlen |-> minlen]

\* a cell of a LenProfile: short, the index-th element of len_vec (from 0), or long
Cell(kind, index) == [kind |-> kind, index |-> index]

LenProfile_get_mut_clamped(lp, len) ==
    IF len < lp.minlen THEN Cell("short", 0)
    ELSE IF len - lp.minlen < Len(lp.len_vec) THEN Cell("len_vec", len - lp.minlen)
    ELSE IF lp.len_vec # <<>> THEN Cell("len_vec", Len(lp.len_vec) - 1)
    ELSE Cell("long", 0)

\* LenProfile::get_mut: the cell a length resolves to
LenProfile_get_mut(lp, len) ==
    IF len < lp.minlen THEN Cell("short", 0)
    ELSE IF len - lp.minlen < Len(lp.len_vec) THEN Cell("len_vec", len - lp.minlen)
    ELSE Cell("long", 0)

\* LenProfile::get: the cell a length resolves to
LenProfile_get(lp, len) ==
    IF len < lp.minlen THEN Cell("short", 0)
    ELSE IF len - lp.minlen < Len(lp.len_vec) THEN Cell("len_vec", len - lp.minlen)
    ELSE Cell("long", 0)

\* reading and writing through the reference get_mut returns
LenProfile_read(lp, c) ==
    IF c.kind = "short" THEN lp.short
    ELSE IF c.kind = "long" THEN lp.long
    ELSE lp.len_vec[c.index + 1]

LenProfile_write(lp, c, v) ==
    IF c.kind = "short" THEN [lp EXCEPT !.short = v]
    ELSE IF c.kind = "long" THEN [lp EXCEPT !.long = v]
    ELSE [lp EXCEPT !.len_vec[c.index + 1] = v]

\* Frame::new: the three cells of frames 0, 1, 2
Frame_new(initial) == <<initial, initial, initial>>

\* the remainder of Rust's %, which has the sign of the dividend
rem(a, b) == IF a >= 0 THEN a % b ELSE 0 - ((0 - a) % b)

\* Frame::to_frame
to_frame(i) == (rem(i, 3) + 3) % 3

\* Metagene::new
Metagene_new(st, len, initial) == [pos_vec |-> Repeat(initial, len), start |-> st]

\* Metagene::get: the index (from 0) of the cell of a position, if any
Metagene_get(mg, p) ==
    IF p < mg.start THEN None
    ELSE IF p - mg.start < Len(mg.pos_vec) THEN Some(p - mg.start)
    ELSE None

Metagene_get_mut_end_inclusive(mg, p) ==
    IF p < mg.start THEN None
    ELSE IF p - mg.start < Len(mg.pos_vec) THEN Some(p - mg.start)
    ELSE IF p - mg.start = Len(mg.pos_vec) /\ Len(mg.pos_vec) > 0 THEN Some(p - mg.start - 1)
    ELSE None

\* Metagene::get_mut: the index (from 0) of the cell of a position, if any
Metagene_get_mut(mg, p) ==
    IF p < mg.start THEN None
    ELSE IF p - mg.start < Len(mg.pos_vec) THEN Some(p - mg.start)
    ELSE None

----------------------------------------------------------------------------
(* fp_framing/stats.rs: AnnotStats, AlignStats, FramingStats *)

\* AnnotStats::new
AnnotStats_new ==
    [no_gene |-> 0, noncoding |-> 0, noncoding_overlap |-> 0, multi_coding |-> 0,
     incompatible |-> 0, ambig |-> 0, good |-> 0]

tally_fp_frame_ambig_as_good(a, ffr) ==
    IF ffr.tag = "NoGene" THEN [a EXCEPT !.no_gene = @ + 1]
    ELSE IF ffr.tag = "NoncodingOnly" THEN [a EXCEPT !.noncoding = @ + 1]
    ELSE IF ffr.tag = "NoncodingOverlap" THEN [a EXCEPT !.noncoding_overlap = @ + 1]
    ELSE IF ffr.tag = "MultiCoding" THEN [a EXCEPT !.multi_coding = @ + 1]
    ELSE IF ffr.gene[1].tag = "NoCompatible" THEN [a EXCEPT !.incompatible = @ + 1]
    ELSE IF ffr.gene[1].tag = "Ambig" THEN [a EXCEPT !.ambig = @ + 1, !.good = @ + 1]
    ELSE [a EXCEPT !.good = @ + 1]

\* AnnotStats::tally_fp_frame
tally_fp_frame(a, ffr) ==
    IF ffr.tag = "NoGene" THEN [a EXCEPT !.no_gene = @ + 1]
    ELSE IF ffr.tag = "NoncodingOnly" THEN [a EXCEPT !.noncoding = @ + 1]
    ELSE IF ffr.tag = "NoncodingOverlap" THEN [a EXCEPT !.noncoding_overlap = @ + 1]
    ELSE IF ffr.tag = "MultiCoding" THEN [a EXCEPT !.multi_coding = @ + 1]
    ELSE IF ffr.gene[1].tag = "NoCompatible" THEN [a EXCEPT !.incompatible = @ + 1]
    ELSE IF ffr.gene[1].tag = "Ambig" THEN [a EXCEPT !.ambig = @ + 1]
    ELSE [a EXCEPT !.good = @ + 1]

\* AnnotStats::bad_total
AnnotStats_bad_total(a) ==
    a.no_gene + a.noncoding + a.noncoding_overlap + a.multi_coding + a.incompatible + a.ambig

\* AnnotStats::total
AnnotStats_total(a) == AnnotStats_bad_total(a) + a.good

\* AlignStats::new
AlignStats_new ==
    [unmapped |-> 0, short |-> 0, long |-> 0, multi_hit |-> 0, annot_stats |-> AnnotStats_new]

AlignStats_tally_bam_frame_unmapped_as_multi(a, bfr) ==
    IF bfr.tag = "NoHit" THEN [a EXCEPT !.unmapped = @ + 1, !.multi_hit = @ + 1]
    ELSE IF bfr.tag = "MultiHit" THEN [a EXCEPT !.multi_hit = @ + 1]
    ELSE IF bfr.tag = "TooShort" THEN [a EXCEPT !.short = @ + 1]
    ELSE IF bfr.tag = "TooLong" THEN [a EXCEPT !.long = @ + 1]
    ELSE [a EXCEPT !.annot_stats = tally_fp_frame(@, bfr.fp[1])]

\* AlignStats::tally_bam_frame
AlignStats_tally_bam_frame(a, bfr) ==
    IF bfr.tag = "NoHit" THEN [a EXCEPT !.unmapped = @ + 1]
    ELSE IF bfr.tag = "MultiHit" THEN [a EXCEPT !.multi_hit = @ + 1]
    ELSE IF bfr.tag = "TooShort" THEN [a EXCEPT !.short = @ + 1]
    ELSE IF bfr.tag = "TooLong" THEN [a EXCEPT !.long = @ + 1]
    ELSE [a EXCEPT !.annot_stats = tally_fp_frame(@, bfr.fp[1])]

\* AlignStats::bad_total
AlignStats_bad_total(a) == a.unmapped + a.short + a.long + a.multi_hit

\* AlignStats::good_total
AlignStats_good_total(a) == AnnotStats_total(a.annot_stats)

\* AlignStats::total
AlignStats_total(a) == AlignStats_bad_total(a) + AlignStats_good_total(a)

\* an unsigned 64-bit word of the value base * 2^64 + off, where off is small
\* (negative when base is 1)
Word(base, off) == [base |-> base, off |-> off]

\* x as usize, for an isize x: a negative x becomes 2^64 + x
as_usize(x) == IF x >= 0 THEN Word(0, x) ELSE Word(1, x)

\* a - b on usize: whether the subtraction underflows, and the wrapped difference
usize_sub(a, b) ==
    LET base  == a.base - b.base
        off   == a.off - b.off
        under == base < 0 \/ (base = 0 /\ off < 0)
    IN [underflow |-> under,
        word      |-> IF under THEN Word(base + 1, off) ELSE Word(base, off)]

\* flanking.end as usize - min(flanking.end, flanking.start) as usize: with
\* overflow checks (debug builds) an underflow panics, without them it wraps
flanking_len(flanking, overflow_checks) ==
    LET d == usize_sub(as_usize(flanking[2]), as_usize(min(flanking[2], flanking[1])))
    IN IF d.underflow /\ overflow_checks THEN Panicked
       ELSE IF d.word.base # 0 THEN Panicked
       ELSE Returned(d.word.off)

\* the struct FramingStats::new builds with n metagene cells
FramingStats_with(lens, flanking, n) ==
    LET len_profile  == LenProfile_new(lens[1], lens[2], 0)
        frames       == Frame_new(0)
    IN [frame_length |-> LenProfile_new(lens[1], lens[2], frames),
        around_start |-> Metagene_new(flanking[1], n, len_profile),
        around_end   |-> Metagene_new(flanking[1], n, len_profile),
        align_stats  |-> AlignStats_new]

\* FramingStats::new in a build with or without overflow checks
FramingStats_new_build(lens, flanking, overflow_checks) ==
    LET n == flanking_len(flanking, overflow_checks)
    IN IF n.panic THEN Panicked ELSE Returned(FramingStats_with(lens, flanking, n.val))

\* FramingStats::new of a release build: lens and flanking are the (start, end)
\* of the two Ranges
FramingStats_new(lens, flanking) == FramingStats_new_build(lens, flanking, FALSE).val

\* FramingStats::tally_frame_length
tally_frame_length(fs, frame, fp_length) ==
    LET c  == LenProfile_get_mut(fs.frame_length, fp_length)
        fr == LenProfile_read(fs.frame_length, c)
    IN [fs EXCEPT !.frame_length =
           LenProfile_write(@, c, [fr EXCEPT ![to_frame(frame) + 1] = @ + 1])]

\* adding one to the cell of fp_length at offset, when the metagene has that offset
Metagene_tally(mg, offset, fp_length) ==
    LET at == Metagene_get_mut(mg, offset)
    IN IF at = None THEN mg
       ELSE LET lp == mg.pos_vec[at[1] + 1]
                c  == LenProfile_get_mut(lp, fp_length)
            IN [mg EXCEPT !.pos_vec[at[1] + 1] =
                   LenProfile_write(lp, c, LenProfile_read(lp, c) + 1)]

\* FramingStats::tally_around_start
tally_around_start(fs, start_offset, fp_length) ==
    [fs EXCEPT !.around_start = Metagene_tally(@, start_offset, fp_length)]

\* FramingStats::tally_around_end
tally_around_end(fs, end_offset, fp_length) ==
    [fs EXCEPT !.around_end = Metagene_tally(@, end_offset, fp_length)]

\* the histogram part of FramingStats::tally_bam_frame for a Good result
tally_good(fs, gene_frame) ==
    LET with_frame == IF gene_frame.frame = None THEN fs
                      ELSE tally_frame_length(fs, gene_frame.frame[1], gene_frame.fp_length)
        with_start == IF gene_frame.vs_cds_start = None THEN with_frame
                      ELSE tally_around_start(with_frame, gene_frame.vs_cds_start[1],
                                              gene_frame.fp_length)
    IN IF gene_frame.vs_cds_end = None THEN with_start
       ELSE tally_around_end(with_start, gene_frame.vs_cds_end[1], gene_frame.fp_length)

\* FramingStats::tally_bam_frame
FramingStats_tally_bam_frame(fs, bfr) ==
    LET counted == [fs EXCEPT !.align_stats = AlignStats_tally_bam_frame(@, bfr)]
    IN IF bfr.tag = "Fp" /\ bfr.fp[1].tag = "Gene" /\ bfr.fp[1].gene[1].tag = "Good"
       THEN tally_good(counted, bfr.fp[1].gene[1].good[1])
       ELSE counted

----------------------------------------------------------------------------
(* codon_assign.rs: the A-site table.  A line is a sequence of characters: *)
(* the digits "0" .. "9", "TAB", "SP", "u" for a decimal digit outside      *)
(* ASCII (which \d matches) and "x" for any other character.               *)

Digits == {"0", "1", "2", "3", "4", "5", "6", "7", "8", "9"}

Whitespace == {"TAB", "SP"}

DigitValue(c) ==
    CASE c = "0" -> 0 [] c = "1" -> 1 [] c = "2" -> 2 [] c = "3" -> 3 [] c = "4" -> 4
      [] c = "5" -> 5 [] c = "6" -> 6 [] c = "7" -> 7 [] c = "8" -> 8 [] c = "9" -> 9

\* str::trim_right
RECURSIVE trim_right(_)
trim_right(line) ==
    IF line # <<>> /\ line[Len(line)] \in Whitespace
    THEN trim_right(SubSeq(line, 1, Len(line) - 1))
    ELSE line

\* the text matches \d+
all_digits(d) == d # <<>> /\ \A k \in 1..Len(d) : d[k] \in Digits \cup {"u"}

re_captures_space_separated(line) ==
    LET seps == { k \in 1..Len(line) : line[k] \in Whitespace }
    IN IF /\ Cardinality(seps) = 1
          /\ \A k \in seps : /\ all_digits(SubSeq(line, 1, k - 1))
                             /\ all_digits(SubSeq(line, k + 1, Len(line)))
       THEN LET k == CHOOSE j \in seps : TRUE
            IN Some(<<SubSeq(line, 1, k - 1), SubSeq(line, k + 1, Len(line))>>)
       ELSE None

\* Regex "^(\d+)\t(\d+)$" captures: the two groups of a matching line
re_captures(line) ==
    LET tabs == { k \in 1..Len(line) : line[k] = "TAB" }
    IN IF /\ Cardinality(tabs) = 1
          /\ \A k \in tabs : /\ all_digits(SubSeq(line, 1, k - 1))
                             /\ all_digits(SubSeq(line, k + 1, Len(line)))
       THEN LET k == CHOOSE j \in tabs : TRUE
            IN Some(<<SubSeq(line, 1, k - 1), SubSeq(line, k + 1, Len(line))>>)
       ELSE None

\* the decimal digits of usize::MAX = 2^64 - 1
UsizeMaxDigits ==
    <<"1", "8", "4", "4", "6", "7", "4", "4", "0", "7",
      "3", "7", "0", "9", "5", "5", "1", "6", "1", "5">>

RECURSIVE strip_zeros(_)
strip_zeros(d) == IF Len(d) > 1 /\ d[1] = "0" THEN strip_zeros(Tail(d)) ELSE d

\* the digit strings of equal length d and e are in the order d > e
RECURSIVE digits_greater(_, _)
digits_greater(d, e) ==
    IF d = <<>> THEN FALSE
    ELSE IF DigitValue(d[1]) # DigitValue(e[1]) THEN DigitValue(d[1]) > DigitValue(e[1])
    ELSE digits_greater(Tail(d), Tail(e))

RECURSIVE digits_value(_)
digits_value(d) ==
    IF d = <<>> THEN 0
    ELSE 10 * digits_value(SubSeq(d, 1, Len(d) - 1)) + DigitValue(d[Len(d)])

\* str::parse::<usize> of a string of digits: an error when the value exceeds
\* usize::MAX (64-bit); the values of the model have fewer than ten digits
parse_usize(d) ==
    LET z == strip_zeros(d)
    IN IF \/ \E k \in 1..Len(d) : d[k] \notin Digits
          \/ Len(z) > Len(UsizeMaxDigits)
          \/ (Len(z) = Len(UsizeMaxDigits) /\ digits_greater(z, UsizeMaxDigits))
       THEN Err("ParseIntError")
       ELSE Ok(digits_value(z))

\* enum ASiteParseError
BadLine(line) == [kind |-> "BadLine", text |-> line]

BadLength(text) == [kind |-> "BadLength", text |-> text]

BadOffset(text) == [kind |-> "BadOffset", text |-> text]

\* struct ASites
ASites(offsets) == [a_site_offsets |-> offsets]

\* the loop of ASites::from_str from the k-th line on
RECURSIVE from_str_from(_, _, _)
from_str_from(lines, k, offsets) ==
    IF k > Len(lines) THEN Ok(ASites(offsets))
    ELSE LET line == trim_right(lines[k])
             cap  == re_captures(line)
         IN IF cap = None THEN Err(BadLine(line))
            ELSE LET len == parse_usize(cap[1][1])
                     off == parse_usize(cap[1][2])
                 IN IF ~len.ok THEN Err(BadLength(cap[1][1]))
                    ELSE IF ~off.ok THEN Err(BadOffset(cap[1][1]))
                    ELSE LET n      == len.val[1]
                             padded == [j \in 1..max(Len(offsets), n + 1) |->
                                           IF j <= Len(offsets) THEN offsets[j] ELSE None]
                         IN from_str_from(lines, k + 1,
                                          [padded EXCEPT ![n + 1] = Some(off.val[1])])

\* ASites::from_str on the lines of the table (table.lines())
from_str(lines) == from_str_from(lines, 1, <<>>)

offset_zero_is_none(a, len) ==
    IF len + 1 \in 1..Len(a.a_site_offsets) /\ a.a_site_offsets[len + 1] # Some(0)
    THEN a.a_site_offsets[len + 1]
    ELSE None

\* ASites::offset
offset(a, len) ==
    IF len + 1 \in 1..Len(a.a_site_offsets) THEN a.a_site_offsets[len + 1] ELSE None

----------------------------------------------------------------------------
(* bam_suppress_duplicates/record_group.rs: RecordGroups.  A record is its *)
(* reference index, position, strand and name; the reader is the sequence  *)
(* of what its reads give, a record or a failure, then NoMoreRecord.       *)

\* a read of the reader that fails with an error other than NoMoreRecord
ReadFailure == [failure |-> "read"]

\* Ord::cmp on integers
cmp(a, b) == IF a < b THEN "Less" ELSE IF a = b THEN "Equal" ELSE "Greater"

\* Ord::cmp on bool: false < true
cmp_bool(a, b) == IF a = b THEN "Equal" ELSE IF b THEN "Less" ELSE "Greater"

cmp_location_ignoring_strand(r1, r2) ==
    IF cmp(r1.tid, r2.tid) # "Equal" THEN cmp(r1.tid, r2.tid)
    ELSE cmp(r1.pos, r2.pos)

\* RecordGroups::cmp_location
cmp_location(r1, r2) ==
    IF cmp(r1.tid, r2.tid) # "Equal" THEN cmp(r1.tid, r2.tid)
    ELSE IF cmp(r1.pos, r2.pos) # "Equal" THEN cmp(r1.pos, r2.pos)
    ELSE cmp_bool(r1.is_reverse, r2.is_reverse)

\* RecordGroups::read_next_record with n records read so far: the result and
\* the number of records read afterwards
read_next_record(st, n) ==
    IF n >= Len(st) THEN [result |-> Ok(None), nread |-> n]
    ELSE IF st[n + 1] = ReadFailure THEN [result |-> Err("read"), nread |-> n + 1]
    ELSE [result |-> Ok(Some(st[n + 1])), nread |-> n + 1]

\* the error of a record below the current group
OutOfOrder(curr_ref, r) == [out_of_order |-> <<curr_ref, r>>]

\* the loop of RecordGroups::read_group: the result, the number of records
\* read and the look-ahead record afterwards
RECURSIVE read_group_loop(_, _, _, _, _)
read_group_loop(st, n, nr, curr_ref, grp) ==
    LET next == read_next_record(st, n)
    IN IF ~next.result.ok
       THEN [result |-> Err(next.result.err), nread |-> next.nread, next_record |-> nr]
       ELSE IF next.result.val[1] = None
       THEN [result |-> Ok(grp), nread |-> next.nread, next_record |-> None]
       ELSE LET r == next.result.val[1][1]
                o == cmp_location(curr_ref, r)
            IN IF o = "Less"
               THEN [result |-> Ok(grp), nread |-> next.nread, next_record |-> Some(r)]
               ELSE IF o = "Equal"
               THEN read_group_loop(st, next.nread, nr, curr_ref, Append(grp, r))
               ELSE [result |-> Err(OutOfOrder(curr_ref, r)), nread |-> next.nread,
                     next_record |-> nr]

read_group_dropping_lookahead(st, n, curr) ==
    [read_group_loop(st, n, None, curr, <<curr>>) EXCEPT !.next_record = None]

\* RecordGroups::read_group, called by next() after it took the look-ahead
read_group(st, n, curr) == read_group_loop(st, n, None, curr, <<curr>>)

----------------------------------------------------------------------------
(* bam_suppress_duplicates: mod.rs, read_class.rs, stats.rs.  A record is *)
(* its name (a sequence of characters), its CIGAR and its ZD tag.          *)

DEFAULT_NLIM == 100

\* Stats::new; counts holds the cells that are not zero, by index
Stats_new(nlim) ==
    [nlim |-> nlim, counts |-> EmptyMap,
     total_reads_count |-> 0, unique_reads_count |-> 0,
     total_sites_count |-> 0, dupl_sites_count |-> 0, untagged_count |-> 0]

\* Stats::index
Stats_index(st, ntotal, nunique) ==
    (IF ntotal >= st.nlim THEN st.nlim - 1 ELSE ntotal) * st.nlim
    + (IF nunique >= st.nlim THEN st.nlim - 1 ELSE nunique)

\* the cell of counts at an index
Stats_count(st, idx) == IF idx \in DOMAIN st.counts THEN st.counts[idx] ELSE 0

\* Stats::tally
Stats_tally(st, ntotal, nunique) ==
    LET idx == Stats_index(st, ntotal, nunique)
    IN [st EXCEPT !.counts = Put(@, idx, Stats_count(st, idx) + 1),
                  !.total_reads_count = @ + ntotal,
                  !.unique_reads_count = @ + nunique,
                  !.total_sites_count = @ + 1,
                  !.dupl_sites_count = @ + (IF ntotal > nunique THEN 1 ELSE 0)]

\* Stats::tally_untagged
tally_untagged(st) == [st EXCEPT !.untagged_count = @ + 1]

\* the part of Config the loop uses: Config::new with the annotate flag and
\* with or without a file of duplicates
Config_new(annotate, with_dups) ==
    [uniq_output |-> <<>>,
     dups_output |-> IF with_dups THEN Some(<<>>) ELSE None,
     annotate    |-> annotate,
     stats       |-> Stats_new(DEFAULT_NLIM)]

\* read_tag: what follows the first '#' of the name, if there is one
read_tag(r1) ==
    IF \E k \in 1..Len(r1.qname) : r1.qname[k] = "#"
    THEN LET delim_pos == CHOOSE k \in 1..Len(r1.qname) :
                             /\ r1.qname[k] = "#"
                             /\ \A j \in 1..(k - 1) : r1.qname[j] # "#"
         IN Some(SubSeq(r1.qname, delim_pos + 1, Len(r1.qname)))
    ELSE None

\* same_tag
same_tag(r0, r1) ==
    IF read_tag(r0) # None
    THEN IF read_tag(r1) # None THEN read_tag(r0)[1] = read_tag(r1)[1] ELSE FALSE
    ELSE FALSE

\* same_cigar
same_cigar(r0, r1) == r0.raw_cigar = r1.raw_cigar

\* the equivalence a ReadClass was built with
same_class(by, r0, r1) == IF by = "same_cigar" THEN same_cigar(r0, r1) ELSE same_tag(r0, r1)

\* ReadClass::insert
ReadClass_insert(by, classes, r) ==
    IF \E k \in 1..Len(classes) : same_class(by, classes[k][1], r)
    THEN LET c == CHOOSE k \in 1..Len(classes) :
                     /\ same_class(by, classes[k][1], r)
                     /\ \A j \in 1..(k - 1) : ~same_class(by, classes[j][1], r)
         IN [classes EXCEPT ![c] = Append(@, r)]
    ELSE Append(classes, <<r>>)

\* ReadClass::insert_all
RECURSIVE insert_all(_, _, _)
insert_all(by, classes, rs) ==
    IF rs = <<>> THEN classes
    ELSE insert_all(by, ReadClass_insert(by, classes, Head(rs)), Tail(rs))

\* Record::push_aux(b"ZD", n)
push_aux_ZD(r, n) == [r EXCEPT !.zd = Some(n)]

\* the body of the loop over the tag classes, for one tag class: the
\* configuration and the two counters afterwards; the assertion fails on an
\* untagged class of several records
tag_class_step(cf, n_total, n_unique, tag_class) ==
    IF read_tag(tag_class[1]) = None
    THEN IF Len(tag_class) # 1 THEN Panicked
         ELSE Returned(
                [config   |-> [cf EXCEPT !.uniq_output = Append(@, tag_class[1]),
                                         !.stats = Stats_tally(tally_untagged(@),
                                                               n_total, n_unique)],
                 n_total  |-> n_total,
                 n_unique |-> n_unique])
    ELSE LET tag_class_len == Len(tag_class)
             uniq == IF cf.annotate THEN push_aux_ZD(tag_class[1], tag_class_len)
                     ELSE tag_class[1]
             dups == Tail(tag_class)
         IN Returned(
                [config   |-> [cf EXCEPT
                                 !.uniq_output = Append(@, uniq),
                                 !.dups_output = IF @ = None THEN None ELSE Some(@[1] \o dups),
                                 !.stats = Stats_tally(@, n_total + tag_class_len,
                                                       n_unique + 1)],
                 n_total  |-> n_total + tag_class_len,
                 n_unique |-> n_unique + 1])

\* the loop over the tag classes of one CIGAR class
RECURSIVE tag_classes_loop(_, _, _, _)
tag_classes_loop(cf, n_total, n_unique, tag_classes) ==
    IF tag_classes = <<>> THEN Returned(cf)
    ELSE LET step == tag_class_step(cf, n_total, n_unique, Head(tag_classes))
         IN IF step.panic THEN Panicked
            ELSE tag_classes_loop(step.val.config, step.val.n_total, step.val.n_unique,
                                  Tail(tag_classes))

\* the loop over the CIGAR classes of one location group
RECURSIVE cigar_classes_loop(_, _)
cigar_classes_loop(cf, cigar_classes) ==
    IF cigar_classes = <<>> THEN Returned(cf)
    ELSE LET done == tag_classes_loop(cf, 0, 0,
                                      insert_all("same_tag", <<>>, Head(cigar_classes)))
         IN IF done.panic THEN Panicked
            ELSE cigar_classes_loop(done.val, Tail(cigar_classes))

\* the body of the loop of bam_suppress_duplicates for one location group
suppress_group(cf, grp) ==
    cigar_classes_loop(cf, insert_all("same_cigar", <<>>, grp))

----------------------------------------------------------------------------
(* fastx_split/sample_sheet.rs: SampleMap.  An index is a sequence of the *)
(* characters "A", "C", "G", "T", "N".                                     *)

\* SampleEntry::new
SampleEntry(true_index, thing) == [true_index |-> true_index, thing |-> thing]

\* Sample::new(name, index, ...) of Config::new
Sample(name, index) == [name |-> name, index |-> index]

\* the unknown sample of Config::new
UnknownSample(index_length) == Sample("UnknownIndex", Repeat("N", index_length))

\* SampleMap::new, with the unknown sample of Config::new
SampleMap_new(index_length) ==
    LET unknown == SampleEntry(Repeat("N", index_length), UnknownSample(index_length))
    IN [index_length |-> index_length,
        index_map    |-> EmptyMap,
        unknown      |-> unknown,
        entries      |-> <<unknown>>]

IndexBadLength(index_length, index) == [bad_length |-> <<index_length, index>>]

IndexClash(index) == [clash |-> index]

insert_index_overwriting(sm, index, entry) ==
    [result |-> Ok(<<>>), map |-> [sm EXCEPT !.index_map = Put(@, index, entry)]]

\* SampleMap::insert_index: the result and the map afterwards
insert_index(sm, index, entry) ==
    IF index \in DOMAIN sm.index_map
    THEN [result |-> Err(IndexClash(index)), map |-> sm]
    ELSE [result |-> Ok(<<>>), map |-> [sm EXCEPT !.index_map = Put(@, index, entry)]]

\* the bases tried at each position, in order
Bases == <<"A", "C", "G", "T">>

\* the indices the two loops of insert build, in order: at each position,
\* each base other than the one of the index
RECURSIVE mismatches(_, _, _)
mismatches(index, mm, nt) ==
    IF mm > Len(index) THEN <<>>
    ELSE IF nt > Len(Bases) THEN mismatches(index, mm + 1, 1)
    ELSE (IF index[mm] # Bases[nt] THEN <<[index EXCEPT ![mm] = Bases[nt]]>> ELSE <<>>)
         \o mismatches(index, mm, nt + 1)

\* the calls of insert_index on a list of indices, up to the first error
RECURSIVE insert_indices(_, _, _)
insert_indices(sm, indices, entry) ==
    IF indices = <<>> THEN [result |-> Ok(<<>>), map |-> sm]
    ELSE LET first == insert_index(sm, Head(indices), entry)
         IN IF ~first.result.ok THEN first
            ELSE insert_indices(first.map, Tail(indices), entry)

\* SampleMap::insert: the result and the map afterwards
SampleMap_insert(sm, index, allow_mismatch, thing) ==
    IF Len(index) # sm.index_length
    THEN [result |-> Err(IndexBadLength(sm.index_length, index)), map |-> sm]
    ELSE LET entry  == SampleEntry(index, thing)
             exact  == insert_index(sm, index, entry)
             others == IF allow_mismatch
                       THEN insert_indices(exact.map, mismatches(index, 1, 1), entry)
                       ELSE [result |-> Ok(<<>>), map |-> exact.map]
         IN IF ~exact.result.ok THEN exact
            ELSE IF ~others.result.ok THEN others
            ELSE [result |-> Ok(thing),
                  map |-> [others.map EXCEPT !.entries = Append(@, entry)]]

\* SampleMap::get, with no borrow of the sample outstanding
SampleMap_get(sm, index) ==
    IF Len(index) # sm.index_length
    THEN Err(IndexBadLength(sm.index_length, index))
    ELSE LET entry == IF index \in DOMAIN sm.index_map THEN sm.index_map[index]
                      ELSE sm.unknown
         IN Ok(entry.thing)

\* SampleMap::get_mut, with no borrow of the sample outstanding
SampleMap_get_mut(sm, index) ==
    IF Len(index) # sm.index_length
    THEN Err(IndexBadLength(sm.index_length, index))
    ELSE LET entry == IF index \in DOMAIN sm.index_map THEN sm.index_map[index]
                      ELSE sm.unknown
         IN Ok(entry.thing)

----------------------------------------------------------------------------
(* Arguments of the calls *)

\* genomic coordinates of the gene_framing inputs are 0 .. GeneCoord-1
GeneCoord == 4
\* gene_framing is called with at most max(2, MaxTrxs) transcripts
MaxTrxs == 2
\* footprints compared with several transcripts have at most MaxFpLen bases
MaxFpLen == 2
\* CDS body windows are (lower, upper) with 0 <= lower <= MaxBody, -MaxBody <= upper <= 0
MaxBody == 1

\* a single-exon transcript without CDS carrying a location
LocTranscript(l) == Transcript("YAL030W", "YAL030W", l, None)

\* all half-open ranges inside 0 .. n
Ranges(n) == { <<s, e>> : s \in 0..n, e \in 0..n } \cap { r \in (0..n) \X (0..n) : r[1] < r[2] }

GeneExonSeqs == { ex \in ExonSeqs : ex[Len(ex)][2] <= GeneCoord }

GeneSpliceds(refids, strands) ==
    { l \in SplicedOn(refids) : l.exons \in GeneExonSeqs /\ l.strand \in strands }

\* every transcript (coding or not) over the gene's coordinates, either strand
GeneTranscripts ==
    UNION { { Transcript("YAL030W", "YAL030W", l, cds) :
                cds \in {None} \cup { Some(r) : r \in Ranges(exon_total_length(l)) } } :
            l \in GeneSpliceds({"chr01"}, ReqStrands) }

\* the forward-strand isoforms of the gene
GeneIsoforms == { t \in GeneTranscripts : t.loc.strand = "Forward" }

\* isoforms sharing the transcription start site, non-coding or with a CDS
\* that runs to the end of the transcript
GeneStartIsoforms ==
    { t \in GeneIsoforms :
        /\ start(t.loc) = 0
        /\ t.cds # None => t.cds[1][2] = exon_total_length(t.loc) }

CodingStartIsoforms == { t \in GeneStartIsoforms : t.cds # None }

BodyWindows == { <<lo, hi>> : lo \in 0..MaxBody, hi \in (0 - MaxBody)..0 }

\* the transcript and the window of test_body_frame
YAL061W ==
    Transcript("YAL061W", "YAL061W",
               [refid |-> "chr01", strand |-> "Forward", exons |-> << <<33364, 34785>> >>],
               Some(<<83, 1337>>))

TestWindow == <<15, -15>>

TestPositions == (80..102) \cup (1320..1324)

NoLoc == [refid |-> "chr01", strand |-> "Forward", exons |-> << <<0, 1>> >>]

----------------------------------------------------------------------------
(* splice_compatible and fp_into_transcript on one pair of locations *)

IdleSplice == outer = NoLoc /\ inner = NoLoc

IdleProject == loc = NoLoc /\ ipos = 0 /\ chrpos = None

IdleBody == trxpos = TrxPos(LocTranscript(NoLoc), 0)

IdleGene == trxs = <<>> /\ fp = NoLoc

\* a BED record and an alignment record that are never read
NoRecord == BedRecord("chr01", 0, None, None, None, None, None, None, None)

NoRec == BamRecord(0 - 1, 0, FALSE, <<>>, None, None)

IdleCatalog == trxome = Transcriptome_new /\ transcript = LocTranscript(NoLoc)

IdleBed == record = NoRecord

IdleRun ==
    /\ rec = NoRec
    /\ tids = <<>>
    /\ lengths = <<0, 0>>
    /\ count_multi = FALSE
    /\ framing_stats = FramingStats_new(<<0, 0>>, <<0, 0>>)
    /\ nrec = 0

IdleASites == table = <<>> /\ asites = None /\ qlen = 0

NoCall == [op |-> "none"]

IdleProfile ==
    /\ profile = LenProfile_new(0, 0, 0)
    /\ minmax = <<0, 0>>
    /\ flank = <<0, 0>>
    /\ checked = FALSE
    /\ fstats = None
    /\ call = NoCall
    /\ ncall = 0

IdleGroups == stream = <<>> /\ nread = 0 /\ next_record = None /\ yielded = <<>>

IdleSite == config = Config_new(FALSE, FALSE) /\ loc_group = <<>> /\ nsites = 0

IdleSample == sample_map = SampleMap_new(0) /\ query = <<>>

IdleLast == IdleGroups /\ IdleSite /\ IdleSample

IdleLater == IdleASites /\ IdleProfile /\ IdleLast

\* the variables of the framing code, all idle
IdleEarlier ==
    /\ IdleSplice /\ IdleProject /\ IdleBody /\ IdleGene /\ IdleCatalog /\ IdleBed /\ IdleRun
    /\ cdsbody = <<0, 0>>

\* the variables of the framing code but pc and ret
earlier == <<outer, inner, loc, ipos, chrpos, trxpos, cdsbody, trxs, fp, trxome, transcript,
             record, rec, tids, lengths, count_multi, framing_stats, nrec>>

InitSplice ==
    /\ pc = "input"
    /\ ret = None
    /\ outer \in SplicedOn({"chr01"})
    /\ inner \in Spliceds
    /\ cdsbody = <<0, 0>>
    /\ IdleProject /\ IdleBody /\ IdleGene
    /\ IdleCatalog /\ IdleBed /\ IdleRun /\ IdleLater

\* the variables a call of a pure function leaves alone
inputs == <<outer, inner, loc, trxpos, cdsbody, trxs, fp,
            trxome, transcript, record, rec, tids, lengths, count_multi, framing_stats, nrec,
            later>>

SpliceCompatible ==
    /\ pc = "input"
    /\ pc' = "splice_compatible"
    /\ ret' = splice_compatible(outer, inner)
    /\ UNCHANGED <<inputs, ipos, chrpos>>

FpIntoTranscript ==
    /\ pc = "input"
    /\ pc' = "fp_into_transcript"
    /\ ret' = fp_into_transcript(inner, LocTranscript(outer))
    /\ UNCHANGED <<inputs, ipos, chrpos>>

NextSplice == SpliceCompatible \/ FpIntoTranscript

SpecSplice == InitSplice /\ [][NextSplice]_vars

----------------------------------------------------------------------------
(* pos_outof followed by pos_into on one location *)

InitProject ==
    /\ pc = "input"
    /\ ret = None
    /\ loc \in SplicedOn({"chr01"})
    /\ ipos = 0
    /\ chrpos = None
    /\ cdsbody = <<0, 0>>
    /\ IdleSplice /\ IdleBody /\ IdleGene
    /\ IdleCatalog /\ IdleBed /\ IdleRun /\ IdleLater

\* pull internal coordinate i (one before the first to one past the last) out of loc
PosOutof ==
    /\ pc = "input"
    /\ \E i \in (0 - 1)..exon_total_length(loc) :
          /\ ipos' = i
          /\ chrpos' = pos_outof(loc, Pos("", i, "Forward"))
    /\ pc' = "pos_outof"
    /\ UNCHANGED <<inputs, ret>>

\* project the genomic position back into loc
PosInto ==
    /\ pc = "pos_outof"
    /\ chrpos # None
    /\ ret' = pos_into(loc, chrpos[1])
    /\ pc' = "pos_into"
    /\ UNCHANGED <<inputs, ipos, chrpos>>

NextProject == PosOutof \/ PosInto

SpecProject == InitProject /\ [][NextProject]_vars

----------------------------------------------------------------------------
(* body_frame on one transcript position *)

InitBody ==
    /\ pc = "input"
    /\ ret = None
    /\ \/ /\ trxpos \in { TrxPos(t, p) :
                            t \in GeneIsoforms,
                            p \in 0..(GeneCoord - 1) }
          /\ trxpos.pos < exon_total_length(trxpos.transcript.loc)
          /\ cdsbody \in BodyWindows
       \/ /\ trxpos \in { TrxPos(YAL061W, p) : p \in TestPositions }
          /\ cdsbody = TestWindow
    /\ IdleSplice /\ IdleProject /\ IdleGene
    /\ IdleCatalog /\ IdleBed /\ IdleRun /\ IdleLater

BodyFrame ==
    /\ pc = "input"
    /\ pc' = "body_frame"
    /\ ret' = body_frame(cdsbody, trxpos)
    /\ UNCHANGED <<inputs, ipos, chrpos>>

NextBody == BodyFrame

SpecBody == InitBody /\ [][NextBody]_vars

----------------------------------------------------------------------------
(* gene_framing on the transcripts of one gene and a footprint *)

\* sequences of length 0 .. n over S
RECURSIVE SeqsUpTo(_, _)
SeqsUpTo(S, n) ==
    IF n = 0 THEN { <<>> }
    ELSE LET shorter == SeqsUpTo(S, n - 1)
         IN shorter \cup { Append(q, x) : q \in { r \in shorter : Len(r) = n - 1 }, x \in S }

\* the transcripts of a list have different names
TrxNames == <<"YAL030W", "YAL030W-2", "YAL030W-3", "YAL030W-4">>

Named(q) == [k \in 1..Len(q) |-> [q[k] EXCEPT !.trxname = TrxNames[k]]]

InitGene ==
    /\ pc = "input"
    /\ ret = None
    /\ cdsbody \in BodyWindows
    /\ \/ /\ trxs \in { <<>> } \cup { <<t>> : t \in GeneTranscripts }
          /\ fp \in GeneSpliceds(RefIDs, ReqStrands)
       \/ /\ trxs \in { Named(q) : q \in GeneStartIsoforms \X GeneStartIsoforms }
                      \cup { Named(q) : q \in { r \in SeqsUpTo(CodingStartIsoforms, MaxTrxs) : Len(r) >= 3 } }
          /\ fp \in { f \in GeneSpliceds({"chr01"}, {"Forward"}) : exon_total_length(f) <= MaxFpLen }
    /\ IdleSplice /\ IdleProject /\ IdleBody
    /\ IdleCatalog /\ IdleBed /\ IdleRun /\ IdleLater

GeneFramingCall ==
    /\ pc = "input"
    /\ pc' = "gene_framing"
    /\ ret' = gene_framing(cdsbody, trxs, fp)
    /\ UNCHANGED <<inputs, ipos, chrpos>>

NextGene == GeneFramingCall

SpecGene == InitGene /\ [][NextGene]_vars

----------------------------------------------------------------------------
(* Transcriptome::insert and Transcriptome::find_at_loc on one transcriptome *)

\* transcripts and queries of the catalogue lie in 0 .. CatCoord
CatCoord == 3

CatalogNames == {"AAA", "BBB"}

CatalogGenes == {"GENE1", "GENE2"}

CatalogExonSeqs == { ex \in ExonSeqs : ex[Len(ex)][2] <= CatCoord }

\* every shape on chr01 and one location on chr02
CatalogLocs ==
    { [refid |-> "chr01", strand |-> "Forward", exons |-> ex] : ex \in CatalogExonSeqs }
    \cup { [refid |-> "chr02", strand |-> "Reverse", exons |-> << <<0, CatCoord>> >>] }

CatalogTranscripts ==
    { Transcript(g, n, l, None) : g \in CatalogGenes, n \in CatalogNames, l \in CatalogLocs }

\* the locations queried: every shape on either reference
CatalogQueries ==
    { [refid |-> r, strand |-> "Forward", exons |-> ex] : r \in RefIDs, ex \in CatalogExonSeqs }

InitCatalog ==
    /\ pc = "input"
    /\ ret = None
    /\ trxome = Transcriptome_new
    /\ transcript = LocTranscript(NoLoc)
    /\ loc = NoLoc /\ ipos = 0 /\ chrpos = None
    /\ cdsbody = <<0, 0>>
    /\ IdleSplice /\ IdleBody /\ IdleGene /\ IdleBed /\ IdleRun /\ IdleLater

\* a call of insert, after any calls of insert, failed ones included; the
\* calls end with one query (FindAtLoc)
Insert ==
    /\ pc \in {"input", "insert"}
    /\ \E t \in CatalogTranscripts :
          LET r == insert(trxome, t)
          IN /\ transcript' = t
             /\ ret' = r.result
             /\ trxome' = r.trxome
    /\ pc' = "insert"
    /\ loc' = NoLoc
    /\ UNCHANGED <<outer, inner, ipos, chrpos, trxpos, cdsbody, trxs, fp,
                   record, rec, tids, lengths, count_multi, framing_stats, nrec, later>>

FindAtLoc ==
    /\ pc \in {"input", "insert"}
    /\ \E q \in CatalogQueries :
          /\ loc' = q
          /\ ret' = find_at_loc(trxome, q)
    /\ pc' = "find_at_loc"
    /\ transcript' = LocTranscript(NoLoc)
    /\ UNCHANGED <<outer, inner, ipos, chrpos, trxpos, cdsbody, trxs, fp, trxome,
                   record, rec, tids, lengths, count_multi, framing_stats, nrec, later>>

NextCatalog == Insert \/ FindAtLoc

SpecCatalog == InitCatalog /\ [][NextCatalog]_vars

----------------------------------------------------------------------------
(* Transcript::from_bed12 on one BED record *)

\* the blocks and the thickStart/thickEnd of the records lie in 0 .. BedCoord + 1
BedCoord == 5

\* the exons of the well-formed records: one or two blocks from base 1 on
BedExonSeqs ==
    { ex \in ExonSeqs : ex[1][1] >= 1 /\ ex[Len(ex)][2] <= BedCoord /\ Len(ex) <= 2 }

\* an Option over S
Option(S) == {None} \cup { Some(x) : x \in S }

\* the record describing the exons ex on strand character c
BedRecordOf(ex, c, thick_start, thick_end) ==
    BedRecord("chr01", ex[1][1], Some("YAL030W"), Some(c), thick_start, thick_end,
              Some(Len(ex)),
              Some([k \in 1..Len(ex) |-> ex[k][2] - ex[k][1]]),
              Some([k \in 1..Len(ex) |-> ex[k][1] - ex[1][1]]))

WellFormedBedRecords ==
    { BedRecordOf(ex, c, ts, te) :
        ex \in BedExonSeqs, c \in {"+", "-"},
        ts \in Option(0..(BedCoord + 1)), te \in Option(0..(BedCoord + 1)) }

\* records with any block count, sizes, starts, strand and name
AnyBlocksBedRecords ==
    { BedRecord("chr01", 1, name, strand, Some(1), Some(2), Some(n), Some(sizes), Some(starts)) :
        name \in Option({"YAL030W"}),
        strand \in Option({"+", "-", "."}),
        n \in 0..2,
        sizes \in SeqsUpTo(0..2, 2),
        starts \in SeqsUpTo(0..3, 2) }

InitBed ==
    /\ pc = "input"
    /\ ret = None
    /\ record \in WellFormedBedRecords \cup AnyBlocksBedRecords
    /\ cdsbody = <<0, 0>>
    /\ IdleSplice /\ IdleProject /\ IdleBody /\ IdleGene /\ IdleCatalog /\ IdleRun /\ IdleLater

FromBed12 ==
    /\ pc = "input"
    /\ record # NoRecord
    /\ pc' = "from_bed12"
    /\ ret' = from_bed12(record)
    /\ UNCHANGED <<inputs, ipos, chrpos>>

NextBed == FromBed12

SpecBed == InitBed /\ [][NextBed]_vars

----------------------------------------------------------------------------
(* footprint_framing on one transcriptome and one footprint *)

\* a transcriptome of the footprint_framing calls holds at most MaxCatalog transcripts
MaxCatalog == 3

\* the subsets of S with at most n elements
RECURSIVE SubsetsUpTo(_, _)
SubsetsUpTo(S, n) ==
    IF n = 0 THEN { {} }
    ELSE LET smaller == SubsetsUpTo(S, n - 1)
         IN smaller \cup { T \cup {x} : T \in smaller, x \in S }

\* the elements of a set, in some order
RECURSIVE SeqOfSet(_)
SeqOfSet(S) ==
    IF S = {} THEN <<>>
    ELSE LET x == CHOOSE y \in S : TRUE
         IN <<x>> \o SeqOfSet(S \ {x})

\* the transcriptome after inserting the transcripts ts[k], ts[k+1], ...
RECURSIVE InsertAll(_, _, _)
InsertAll(tome, ts, k) ==
    IF k > Len(ts) THEN tome
    ELSE InsertAll(insert(tome, ts[k]).trxome, ts, k + 1)

\* coding (CDS over the whole transcript) and non-coding transcripts of two
\* genes, starting at base 0 of chr01
FootprintTranscripts ==
    { Transcript(g, g, [refid |-> "chr01", strand |-> "Forward", exons |-> ex], cds) :
        g \in CatalogGenes,
        ex \in { e \in CatalogExonSeqs : e[1][1] = 0 },
        cds \in {0, 1} }

\* cds = 1 stands for the CDS over the whole transcript
WithCds(t) ==
    [t EXCEPT !.cds = IF t.cds = 0 THEN None ELSE Some(<<0, exon_total_length(t.loc)>>)]

FootprintCatalogs ==
    { InsertAll(Transcriptome_new,
                Named([k \in 1..Cardinality(S) |-> WithCds(SeqOfSet(S)[k])]), 1) :
        S \in SubsetsUpTo(FootprintTranscripts, MaxCatalog) }

\* the orders in which the elements of a sequence can be iterated
Orderings(q) ==
    { [k \in 1..Len(q) |-> q[p[k]]] :
        p \in { f \in [1..Len(q) -> 1..Len(q)] : \A i, j \in 1..Len(q) : f[i] = f[j] => i = j } }

InitFootprint ==
    /\ pc = "input"
    /\ ret = None
    /\ trxome \in FootprintCatalogs
    /\ transcript = LocTranscript(NoLoc)
    /\ fp \in CatalogQueries
    /\ trxs = <<>>
    /\ cdsbody = <<0, 0>>
    /\ IdleSplice /\ IdleProject /\ IdleBody /\ IdleBed /\ IdleRun /\ IdleLater

\* footprint_framing; the interval index and the gene grouping iterate in any order
FootprintFramingCall ==
    /\ pc = "input"
    /\ LET found == find_at_loc(trxome, fp)
       IN IF found.panic
          THEN ret' = Panicked
          ELSE \E order \in Orderings(found.val) :
                  ret' = footprint_framing_found(order, fp, cdsbody)
    /\ pc' = "footprint_framing"
    /\ UNCHANGED <<inputs, ipos, chrpos>>

NextFootprint == FootprintFramingCall

SpecFootprint == InitFootprint /\ [][NextFootprint]_vars

----------------------------------------------------------------------------
(* The record loop of run_fp_framing *)

\* the loop processes at most MaxRecords records
MaxRecords == 2

\* chr01: gene G1 with a spliced and an unspliced coding transcript;
\* chr02: a non-coding gene G2 and the coding genes G3 and G4, overlapping in turn
RunTranscripts ==
    << Transcript("G1", "T1", [refid |-> "chr01", strand |-> "Forward",
                               exons |-> <<<<0, 2>>, <<3, 5>>>>], Some(<<0, 4>>)),
       Transcript("G1", "T2", [refid |-> "chr01", strand |-> "Forward",
                               exons |-> <<<<0, 5>>>>], Some(<<1, 5>>)),
       Transcript("G2", "T3", [refid |-> "chr02", strand |-> "Forward",
                               exons |-> <<<<0, 3>>>>], None),
       Transcript("G3", "T4", [refid |-> "chr02", strand |-> "Forward",
                               exons |-> <<<<2, 5>>>>], Some(<<0, 3>>)),
       Transcript("G4", "T5", [refid |-> "chr02", strand |-> "Forward",
                               exons |-> <<<<4, 7>>>>], Some(<<0, 3>>)) >>

RunCatalog == InsertAll(Transcriptome_new, RunTranscripts, 1)

\* the reference table of the alignment file header
RunTids == <<"chr01", "chr02", "chr03">>

\* the accepted lengths min..max and the flanking range of the metagenes
RunLengths == <<2, 3>>

RunFlanking == <<0 - 1, 2>>

RunCigars ==
    { <<>>,
      <<Cigar("Match", 1)>>, <<Cigar("Match", 2)>>, <<Cigar("Match", 3)>>,
      <<Cigar("Match", 1), Cigar("RefSkip", 1), Cigar("Match", 1)>>,
      <<Cigar("Match", 1), Cigar("RefSkip", 1), Cigar("Match", 2)>>,
      <<Cigar("Match", 2), Cigar("RefSkip", 1), Cigar("Match", 2)>>,
      <<Cigar("RefSkip", 1), Cigar("Match", 2)>>,
      <<Cigar("SoftClip", 1), Cigar("Match", 2)>>,
      <<Cigar("Match", 1), Cigar("Del", 1), Cigar("Match", 1)>> }

\* records that vary in the tags, unmapped (tid -1), mapped, or with a tid
\* beyond the reference table; untagged records that vary in the alignment;
\* untagged records on the reverse strand and on the reference without transcripts
RunRecords ==
    { BamRecord(tid, 0, FALSE, <<Cigar("Match", 2)>>, nh, hi) :
        tid \in {0 - 1, 0, 3},
        nh \in {None, Some(0), Some(1), Some(3)},
        hi \in {None, Some(1), Some(2)} }
    \cup
    { BamRecord(0, 0, FALSE, <<Cigar("Match", 1)>>, Some(3), hi) : hi \in {None, Some(1)} }
    \cup
    { BamRecord(tid, p, FALSE, cigar, None, None) :
        tid \in {0, 1},
        p \in 0..4,
        cigar \in RunCigars }
    \cup
    { BamRecord(tid, p, TRUE, <<Cigar("Match", 2)>>, None, None) :
        tid \in {0, 2},
        p \in {0, 1} }

InitRun ==
    /\ pc = "input"
    /\ ret = None
    /\ trxome = RunCatalog
    /\ transcript = LocTranscript(NoLoc)
    /\ rec = NoRec
    /\ tids = RunTids
    /\ lengths = RunLengths
    /\ count_multi \in BOOLEAN
    /\ framing_stats = FramingStats_new(RunLengths, RunFlanking)
    /\ nrec = 0
    /\ cdsbody = <<0, 0>>
    /\ IdleSplice /\ IdleProject /\ IdleBody /\ IdleGene /\ IdleBed /\ IdleLater

\* one iteration of the loop: record_framing on the next record, then
\* tally_bam_frame; an error of record_framing ends the run before the tally
ProcessRecord ==
    /\ pc \in {"input", "tallied"}
    /\ nrec < MaxRecords
    /\ \E r \in RunRecords :
          LET res == record_framing(trxome, tids, r, lengths, cdsbody, count_multi)
          IN /\ rec' = r
             /\ ret' = res
             /\ IF res.panic
                THEN pc' = "panicked" /\ UNCHANGED <<framing_stats, nrec>>
                ELSE IF ~res.val.ok
                THEN pc' = "aborted" /\ UNCHANGED <<framing_stats, nrec>>
                ELSE /\ framing_stats' = FramingStats_tally_bam_frame(framing_stats, res.val.val[1])
                     /\ nrec' = nrec + 1
                     /\ pc' = "tallied"
    /\ UNCHANGED <<outer, inner, loc, trxpos, cdsbody, trxs, fp, trxome, transcript,
                   record, tids, lengths, count_multi, ipos, chrpos, later>>

NextRun == ProcessRecord

SpecRun == InitRun /\ [][NextRun]_vars

----------------------------------------------------------------------------
(* ASites::from_str on one table, then ASites::offset *)

\* a table has at most MaxLines lines
MaxLines == 2
\* the free-form lines have at most MaxLineLen characters
MaxLineLen == 3

\* the strings over an alphabet of at most n characters
RECURSIVE StringsUpTo(_, _)
StringsUpTo(alphabet, n) ==
    IF n = 0 THEN { <<>> }
    ELSE LET shorter == StringsUpTo(alphabet, n - 1)
         IN shorter \cup { Append(w, c) : w \in shorter, c \in alphabet }

\* the table of the documentation: 27 -> 14, 28 -> 15
ExampleTable == << <<"2", "7", "TAB", "1", "4">>, <<"2", "8", "TAB", "1", "5">> >>

\* twenty-one nines: more than usize::MAX
Nines == [k \in 1..21 |-> "9"]

ASiteLines ==
    StringsUpTo({"1", "TAB", "SP"}, MaxLineLen)
    \cup { len \o <<"TAB">> \o off :
             len \in { <<"1">>, <<"2">>, <<"0", "2">> }, off \in { <<"0">>, <<"3">> } }
    \cup { <<"2", "TAB", "3", "SP", "TAB">>, <<"2", "SP", "SP", "3">>, <<"2", "TAB", "TAB", "3">>,
           <<"x", "1", "TAB", "3">>, <<"2", "TAB", "x", "3">>, <<"2", "x", "3">> }
    \cup { Nines \o <<"TAB", "1">>, <<"1", "TAB">> \o Nines,
           <<"u", "TAB", "1">>, <<"1", "TAB", "u">> }

ASiteTables ==
    { ExampleTable }
    \cup UNION { [1..n -> ASiteLines] : n \in 0..MaxLines }

\* the lengths asked for
ASiteQueries == (0..4) \cup (26..29)

InitASites ==
    /\ pc = "input"
    /\ ret = None
    /\ table \in ASiteTables
    /\ asites = None
    /\ qlen = 0
    /\ IdleEarlier /\ IdleProfile /\ IdleLast

\* "...".parse::<ASites>()
FromStr ==
    /\ pc = "input"
    /\ asites' = Some(from_str(table))
    /\ pc' = "from_str"
    /\ UNCHANGED <<earlier, latest, ret, table, qlen, profileVars>>

\* asites.offset(len) on a parsed table
Offset ==
    /\ pc = "from_str"
    /\ asites[1].ok
    /\ \E len \in ASiteQueries :
          /\ qlen' = len
          /\ ret' = offset(asites[1].val[1], len)
    /\ pc' = "offset"
    /\ UNCHANGED <<earlier, latest, table, asites, profileVars>>

NextASites == FromStr \/ Offset

SpecASites == InitASites /\ [][NextASites]_vars

----------------------------------------------------------------------------
(* Calls on a LenProfile of counts *)

\* the profiles are built with min and max in 0 .. MaxProfileLen
MaxProfileLen == 2
\* at most MaxCalls calls are made on a profile or on a FramingStats
MaxCalls == 2

InitProfile ==
    /\ pc = "input"
    /\ ret = None
    /\ minmax \in (0..MaxProfileLen) \X (0..MaxProfileLen)
    /\ profile = LenProfile_new(minmax[1], minmax[2], 0)
    /\ flank = <<0, 0>>
    /\ checked = FALSE
    /\ fstats = None
    /\ call = NoCall
    /\ ncall = 0
    /\ IdleEarlier /\ IdleASites /\ IdleLast

\* *profile.get_mut(len) += 1, then profile.get(len)
Increment ==
    /\ pc \in {"input", "increment"}
    /\ ncall < MaxCalls
    /\ \E len \in 0..(MaxProfileLen + 1) :
          LET c     == LenProfile_get_mut(profile, len)
              after == LenProfile_write(profile, c, LenProfile_read(profile, c) + 1)
          IN /\ profile' = after
             /\ call' = [op |-> "increment", len |-> len, get_mut |-> c,
                         get |-> LenProfile_get(after, len)]
             /\ ret' = Some(LenProfile_read(after, LenProfile_get(after, len)))
    /\ ncall' = ncall + 1
    /\ pc' = "increment"
    /\ UNCHANGED <<earlier, latest, asitesVars, minmax, flank, checked, fstats>>

NextProfile == Increment

SpecProfile == InitProfile /\ [][NextProfile]_vars

----------------------------------------------------------------------------
(* FramingStats::new and the tallies on the FramingStats *)

\* the flanking range has start and end in -MaxFlank .. MaxFlank
MaxFlank == 1

\* the accepted lengths of the FramingStats
StatsLengths == <<1, 2>>

\* GeneFraming values with a footprint length within, below and above the
\* accepted lengths, with and without a frame, and with offsets from the CDS
\* start and end that are absent, at the first position of the flanking
\* range or at its end
StatsGeneFramings ==
    { GeneFraming("YAL030W", vs_start, vs_end, frame, 2) :
        vs_start \in {None, Some(flank[1]), Some(flank[2])},
        vs_end \in {None, Some(flank[1]), Some(flank[2])},
        frame \in {None, Some(1)} }
    \cup { GeneFraming("YAL030W", Some(flank[1]), Some(flank[1]), Some(2), n) : n \in {0, 3} }

StatsBamFrames ==
    { NoHit, MultiHit, TooShort, TooLong,
      Fp(NoGene), Fp(NoncodingOnly), Fp(NoncodingOverlap), Fp(MultiCoding),
      Fp(Gene(NoCompatible)), Fp(Gene(Ambig)) }
    \cup { Fp(Gene(Good(gf))) : gf \in StatsGeneFramings }

\* offsets before, at the start of, at the last position of and at the end of
\* the flanking range
StatsOffsets == { flank[1] - 1, flank[1], flank[2] - 1, flank[2] }

InitStats ==
    /\ pc = "input"
    /\ ret = None
    /\ minmax = StatsLengths
    /\ profile = LenProfile_new(0, 0, 0)
    /\ flank \in ((0 - MaxFlank)..MaxFlank) \X ((0 - MaxFlank)..MaxFlank)
    /\ checked \in BOOLEAN
    /\ fstats = None
    /\ call = NoCall
    /\ ncall = 0
    /\ IdleEarlier /\ IdleASites /\ IdleLast

\* FramingStats::new(&config.lengths, &config.flanking)
FramingStatsNew ==
    /\ pc = "input"
    /\ fstats = None
    /\ LET r == FramingStats_new_build(minmax, flank, checked)
       IN /\ fstats' = IF r.panic THEN None ELSE Some(r.val)
          /\ pc' = IF r.panic THEN "panicked" ELSE "new"
    /\ call' = [op |-> "new",
                underflow |-> usize_sub(as_usize(flank[2]),
                                        as_usize(min(flank[2], flank[1]))).underflow]
    /\ UNCHANGED <<earlier, latest, asitesVars, ret, profile, minmax, flank, checked, ncall>>

\* framing_stats.tally_around_start(start_offset, fp_length)
TallyAroundStart ==
    /\ pc \in {"new", "tally"}
    /\ ncall < MaxCalls
    /\ \E start_offset \in StatsOffsets :
          /\ fstats' = Some(tally_around_start(fstats[1], start_offset, 2))
          /\ call' = [op |-> "tally_around_start", offset |-> start_offset,
                      get |-> Metagene_get(fstats[1].around_start, start_offset),
                      get_mut |-> Metagene_get_mut(fstats[1].around_start, start_offset)]
    /\ ncall' = ncall + 1
    /\ pc' = "tally"
    /\ UNCHANGED <<earlier, latest, asitesVars, ret, profile, minmax, flank, checked>>

\* framing_stats.tally_around_end(end_offset, fp_length)
TallyAroundEnd ==
    /\ pc \in {"new", "tally"}
    /\ ncall < MaxCalls
    /\ \E end_offset \in StatsOffsets :
          /\ fstats' = Some(tally_around_end(fstats[1], end_offset, 2))
          /\ call' = [op |-> "tally_around_end", offset |-> end_offset,
                      get |-> Metagene_get(fstats[1].around_end, end_offset),
                      get_mut |-> Metagene_get_mut(fstats[1].around_end, end_offset)]
    /\ ncall' = ncall + 1
    /\ pc' = "tally"
    /\ UNCHANGED <<earlier, latest, asitesVars, ret, profile, minmax, flank, checked>>

\* framing_stats.tally_bam_frame(&res)
TallyBamFrame ==
    /\ pc \in {"new", "tally"}
    /\ ncall < MaxCalls
    /\ \E bfr \in StatsBamFrames :
          /\ fstats' = Some(FramingStats_tally_bam_frame(fstats[1], bfr))
          /\ call' = [op |-> "tally_bam_frame", bfr |-> bfr]
    /\ ncall' = ncall + 1
    /\ pc' = "tally"
    /\ UNCHANGED <<earlier, latest, asitesVars, ret, profile, minmax, flank, checked>>

NextStats == FramingStatsNew \/ TallyAroundStart \/ TallyAroundEnd \/ TallyBamFrame

SpecStats == InitStats /\ [][NextStats]_vars

----------------------------------------------------------------------------
(* The grouping iterator: RecordGroups::new, then calls of next() *)

\* the reader gives at most MaxStream records
MaxStream == 3

\* records at two positions of two references, on either strand, under two names
GroupRecords ==
    [tid : {0, 1}, pos : {0, 1}, is_reverse : BOOLEAN, qname : {"a", "b"}]

InitGroups ==
    /\ pc = "input"
    /\ ret = None
    /\ stream \in StringsUpTo(GroupRecords \cup {ReadFailure}, MaxStream)
    /\ nread = 0
    /\ next_record = None
    /\ yielded = <<>>
    /\ IdleEarlier /\ IdleASites /\ IdleProfile /\ IdleSite /\ IdleSample

\* RecordGroups::new_by_location: reads the first record
GroupsNew ==
    /\ pc = "input"
    /\ LET first == read_next_record(stream, nread)
       IN /\ nread' = first.nread
          /\ IF first.result.ok
             THEN next_record' = first.result.val[1] /\ pc' = "groups" /\ ret' = None
             ELSE next_record' = None /\ pc' = "failed" /\ ret' = Some(first.result)
    /\ UNCHANGED <<earlier, asitesVars, profileVars, siteVars, sampleVars, stream, yielded>>

\* Iterator::next of RecordGroups: a group or an error, or None at the end
GroupsNext ==
    /\ pc = "groups"
    /\ IF next_record # None
       THEN LET g == read_group(stream, nread, next_record[1])
            IN /\ nread' = g.nread
               /\ next_record' = g.next_record
               /\ yielded' = Append(yielded, g.result)
               /\ ret' = Some(g.result)
               /\ pc' = "groups"
       ELSE /\ ret' = None
            /\ pc' = "ended"
            /\ UNCHANGED <<nread, next_record, yielded>>
    /\ UNCHANGED <<earlier, asitesVars, profileVars, siteVars, sampleVars, stream>>

NextGroups == GroupsNew \/ GroupsNext

SpecGroups == InitGroups /\ [][NextGroups]_vars

----------------------------------------------------------------------------
(* The loop of bam_suppress_duplicates over the location groups *)

\* a location group has at most MaxGroup records
MaxGroup == 2
\* at most MaxGroups location groups are processed
MaxGroups == 2

\* untagged reads and reads tagged A or C, with two CIGARs
SiteRecords ==
    { [qname |-> n, raw_cigar |-> c, zd |-> None] :
        n \in { <<"r">>, <<"r", "#", "A">>, <<"q", "#", "A">>, <<"r", "#", "C">> },
        c \in {"3M"} }
    \cup { [qname |-> n, raw_cigar |-> "2M1I", zd |-> None] :
             n \in { <<"r">>, <<"r", "#", "A">> } }

\* the location groups: the groups of a grouping iterator are not empty
LocGroups == StringsUpTo(SiteRecords, MaxGroup) \ { <<>> }

InitSuppress ==
    /\ pc = "input"
    /\ ret = None
    /\ config \in { Config_new(a, d) : a \in BOOLEAN, d \in BOOLEAN }
    /\ loc_group = <<>>
    /\ nsites = 0
    /\ IdleEarlier /\ IdleASites /\ IdleProfile /\ IdleGroups /\ IdleSample

\* one iteration of the loop over the location groups
SuppressGroup ==
    /\ pc \in {"input", "group"}
    /\ nsites < MaxGroups
    /\ \E grp \in LocGroups :
          LET done == suppress_group(config, grp)
          IN /\ loc_group' = grp
             /\ IF done.panic
                THEN pc' = "panicked" /\ UNCHANGED config
                ELSE pc' = "group" /\ config' = done.val
    /\ nsites' = nsites + 1
    /\ UNCHANGED <<earlier, asitesVars, profileVars, groupsVars, sampleVars, ret>>

NextSuppress == SuppressGroup

SpecSuppress == InitSuppress /\ [][NextSuppress]_vars

----------------------------------------------------------------------------
(* The sample map of fastx-split: the inserts of Config::new, then a query *)

\* a sample index has at most MaxIndexLen characters
MaxIndexLen == 2
\* the sample sheet has at most MaxSamples lines
MaxSamples == 2

IndexChars == {"A", "C", "G", "T", "N"}

\* the indices of n characters
IndicesOfLen(n) == { w \in StringsUpTo(IndexChars, n) : Len(w) = n }

\* the names of the samples of the sheet, by line
SampleNames == <<"sample1", "sample2", "sample3", "sample4">>

\* the indices queried: those of the configured length, a shorter and a longer one
SampleQueries(sm) ==
    IndicesOfLen(sm.index_length)
    \cup { Repeat("A", sm.index_length - 1), Repeat("N", sm.index_length + 1) }

InitSamples ==
    /\ pc = "input"
    /\ ret = None
    /\ sample_map \in { SampleMap_new(n) : n \in 1..MaxIndexLen }
    /\ query = <<>>
    /\ IdleEarlier /\ IdleASites /\ IdleProfile /\ IdleGroups /\ IdleSite

\* one iteration of the loop of Config::new over the lines of the sample
\* sheet: sample_map.insert(index, true, sample); an error ends the loop
SampleInsert ==
    /\ pc = "input" \/ (pc = "insert" /\ ret.ok)
    /\ Len(sample_map.entries) <= MaxSamples
    /\ \E index \in StringsUpTo(IndexChars, MaxIndexLen + 1) :
          LET done == SampleMap_insert(sample_map, index, TRUE,
                                       Sample(SampleNames[Len(sample_map.entries)], index))
          IN /\ query' = index
             /\ ret' = done.result
             /\ sample_map' = done.map
    /\ pc' = "insert"
    /\ UNCHANGED <<earlier, asitesVars, profileVars, groupsVars, siteVars>>

\* sample_map.get(index), after the inserts
SampleGet ==
    /\ pc = "input" \/ (pc = "insert" /\ ret.ok)
    /\ \E index \in SampleQueries(sample_map) :
          /\ query' = index
          /\ ret' = SampleMap_get(sample_map, index)
    /\ pc' = "get"
    /\ UNCHANGED <<earlier, asitesVars, profileVars, groupsVars, siteVars, sample_map>>

\* sample_map.get_mut(index), after the inserts
SampleGetMut ==
    /\ pc = "input" \/ (pc = "insert" /\ ret.ok)
    /\ \E index \in SampleQueries(sample_map) :
          /\ query' = index
          /\ ret' = SampleMap_get_mut(sample_map, index)
    /\ pc' = "get_mut"
    /\ UNCHANGED <<earlier, asitesVars, profileVars, groupsVars, siteVars, sample_map>>

NextSamples == SampleInsert \/ SampleGet \/ SampleGetMut

SpecSamples == InitSamples /\ [][NextSamples]_vars

----------------------------------------------------------------------------
(* All the calls *)

Init == InitSplice \/ InitProject \/ InitBody \/ InitGene \/ InitCatalog \/ InitBed
           \/ InitFootprint \/ InitRun
           \/ InitASites \/ InitProfile \/ InitStats
           \/ InitGroups \/ InitSuppress \/ InitSamples

Next ==
    \/ SpliceCompatible
    \/ FpIntoTranscript
    \/ PosOutof
    \/ PosInto
    \/ BodyFrame
    \/ GeneFramingCall
    \/ Insert
    \/ FindAtLoc
    \/ FromBed12
    \/ FootprintFramingCall
    \/ ProcessRecord
    \/ FromStr \/ Offset
    \/ Increment
    \/ FramingStatsNew \/ TallyAroundStart \/ TallyAroundEnd \/ TallyBamFrame
    \/ GroupsNew \/ GroupsNext
    \/ SuppressGroup
    \/ SampleInsert \/ SampleGet \/ SampleGetMut

Spec == Init /\ [][Next]_vars

----------------------------------------------------------------------------
(* Vocabulary of the properties, defined on the genomic bases themselves   *)

\* the genomic coordinates of the exonic bases of a location
ExonicBases(l) == UNION { (l.exons[k][1])..(l.exons[k][2] - 1) : k \in 1..Len(l.exons) }

\* the number of exonic bases of l that precede genomic coordinate g in transcription direction
BasesBefore(l, g) ==
    IF l.strand = "Forward"
    THEN Cardinality({ x \in ExonicBases(l) : x < g })
    ELSE Cardinality({ x \in ExonicBases(l) : x > g })

\* the k-th exonic block of l in transcription order
Block(l, k) == IF l.strand = "Forward" THEN l.exons[k] ELSE l.exons[Len(l.exons) + 1 - k]

\* the 5' and the 3' genomic coordinate of the k-th block
FivePrime(l, k) == IF l.strand = "Forward" THEN Block(l, k)[1] ELSE Block(l, k)[2] - 1

ThreePrime(l, k) == IF l.strand = "Forward" THEN Block(l, k)[2] - 1 ELSE Block(l, k)[1]

\* every block of inn maps whole into out and consecutive blocks abut in out
BlocksMapAndAbut(out, inn) ==
    /\ inn.refid = out.refid
    /\ inn.strand = out.strand
    /\ \A k \in 1..Len(inn.exons) :
          /\ FivePrime(inn, k) \in ExonicBases(out)
          /\ ThreePrime(inn, k) \in ExonicBases(out)
          /\ BasesBefore(out, ThreePrime(inn, k)) - BasesBefore(out, FivePrime(inn, k))
                = (Block(inn, k)[2] - Block(inn, k)[1]) - 1
    /\ \A k \in 2..Len(inn.exons) :
          BasesBefore(out, FivePrime(inn, k)) = BasesBefore(out, ThreePrime(inn, k - 1)) + 1

\* the single intron of the two-block inn is an intron of out, and inn's ends
\* lie in the exons flanking it
JunctionCoincides(out, inn) ==
    \E j \in 1..(Len(out.exons) - 1) :
        /\ inn.exons[1][2] = out.exons[j][2]
        /\ inn.exons[2][1] = out.exons[j + 1][1]
        /\ inn.exons[1][1] >= out.exons[j][1]
        /\ inn.exons[2][2] <= out.exons[j + 1][2]

\* the single block of inn lies inside one exon of out
InsideOneExon(out, inn) ==
    \E j \in 1..Len(out.exons) :
        /\ inn.exons[1][1] >= out.exons[j][1]
        /\ inn.exons[1][2] <= out.exons[j][2]

----------------------------------------------------------------------------
(* Properties of splice_compatible, fp_into_transcript and the projections *)

\* C5: splice_compatible(outer, inner) is true exactly when inner is on outer's
\* reference and strand, every block of inner (in transcription order) has both
\* endpoints in exons of outer with mapped endpoints block.length-1 apart, and
\* each block's mapped start is the previous block's mapped end + 1.  Hence a
\* two-block inner is compatible exactly when its junction is an intron of outer
\* (not when an endpoint is shifted, when the gap lies inside one exon of outer,
\* or when an exon of outer is skipped).
C5_SpliceCompatibleIffBlocksMapAndAbut ==
    pc = "splice_compatible" =>
        /\ ret = BlocksMapAndAbut(outer, inner)
        /\ (Len(inner.exons) = 2 /\ inner.refid = outer.refid /\ inner.strand = outer.strand)
              => (ret = JunctionCoincides(outer, inner))

\* C5 witness: a two-block inner whose junction is an intron of a three-exon outer
C5_Witness ==
    /\ pc = "splice_compatible"
    /\ ret = TRUE
    /\ Len(inner.exons) = 2
    /\ Len(outer.exons) = 3
    /\ inner.strand = "Reverse"

\* C6: fp_into_transcript returns a position exactly when the footprint is
\* splice-compatible with the transcript; the position is the number of exonic
\* bases of the transcript before the footprint's 5' end in transcription
\* direction; a single-block footprint is accepted exactly when it lies inside
\* one exon (its last base may be the exon's last base); no assertion fails.
C6_FpIntoTranscriptPosition ==
    pc = "fp_into_transcript" =>
        /\ ret.panic = FALSE
        /\ (ret.val # None) = BlocksMapAndAbut(outer, inner)
        /\ ret.val # None =>
              /\ ret.val[1].pos = BasesBefore(outer, FivePrime(inner, 1))
              /\ ret.val[1].transcript.loc = outer
        /\ (Len(inner.exons) = 1 /\ inner.refid = outer.refid /\ inner.strand = outer.strand)
              => ((ret.val # None) = InsideOneExon(outer, inner))

\* C6 witness: a footprint in the second transcribed exon of a reverse-strand
\* transcript, ending on that exon's last base
C6_Witness ==
    /\ pc = "fp_into_transcript"
    /\ ret.val # None
    /\ outer.strand = "Reverse"
    /\ Len(outer.exons) = 2
    /\ Len(inner.exons) = 1
    /\ inner.exons[1][1] = outer.exons[1][1]
    /\ ret.val[1].pos > 0

\* C7: every location is splice-compatible with itself
C7_SpliceCompatibleReflexive ==
    (pc = "splice_compatible" /\ inner = outer) => ret = TRUE

\* C7 witness: a three-exon reverse-strand location compared with itself
C7_Witness ==
    /\ pc = "splice_compatible"
    /\ inner = outer
    /\ Len(outer.exons) = 3
    /\ outer.strand = "Reverse"
    /\ ret = TRUE

\* C8: for 0 <= i < exon total length, pos_outof succeeds and pos_into of its
\* result is i on the Forward strand
C8_ProjectionRoundTrip ==
    (ipos >= 0 /\ ipos < exon_total_length(loc)) =>
        /\ pc = "pos_outof" => chrpos # None
        /\ pc = "pos_into" => ret = Some([pos |-> ipos, strand |-> "Forward"])

\* C8 witness: a coordinate past the first intron of a reverse-strand location
\* went out and came back
C8_Witness ==
    /\ pc = "pos_into"
    /\ loc.strand = "Reverse"
    /\ Len(loc.exons) >= 2
    /\ ipos > 0
    /\ chrpos # None
    /\ chrpos[1].pos < loc.exons[Len(loc.exons)][1]
    /\ ret # None

----------------------------------------------------------------------------
(* Properties of body_frame *)

\* C9: body_frame((lo, hi), trxpos) returns a value exactly when the transcript
\* has a CDS [s, e) and s + lo <= pos <= e + hi; the value is (pos - s) mod 3, one
\* of 0, 1, 2.  With window (15, -15) and CDS start 83: 83..97 give nothing,
\* 98 gives 0, 99 gives 1, 100 gives 2, 101 gives 0.
C9_BodyFrameWindow ==
    pc = "body_frame" =>
        LET cds == trxpos.transcript.cds
            p   == trxpos.pos
        IN /\ (ret # None) =
                 (/\ cds # None
                  /\ cds[1][1] + cdsbody[1] <= p
                  /\ p <= cds[1][2] + cdsbody[2])
           /\ ret # None =>
                 /\ ret[1] \in {0, 1, 2}
                 /\ \E q \in (0 - p)..p : p - cds[1][1] = 3 * q + ret[1]
           /\ (trxpos.transcript = YAL061W /\ cdsbody = TestWindow) =>
                 /\ p \in 83..97 => ret = None
                 /\ p = 98 => ret = Some(0)
                 /\ p = 99 => ret = Some(1)
                 /\ p = 100 => ret = Some(2)
                 /\ p = 101 => ret = Some(0)

\* C9 witness: the first position inside the window of test_body_frame
C9_Witness ==
    /\ pc = "body_frame"
    /\ trxpos.transcript = YAL061W
    /\ trxpos.pos = 98
    /\ ret = Some(0)

----------------------------------------------------------------------------
(* Properties of gene_framing *)

\* the indices of the transcripts of trxs the footprint is splice-compatible with
CompatibleTrxs == { k \in 1..Len(trxs) : BlocksMapAndAbut(trxs[k].loc, fp) }

\* the position of the footprint's 5' end in the k-th transcript
FpPosIn(k) == BasesBefore(trxs[k].loc, FivePrime(fp, 1))

\* the compatible coding transcripts
CodingCompatibleTrxs == { k \in CompatibleTrxs : trxs[k].cds # None }

StartOffsets == { FpPosIn(k) - trxs[k].cds[1][1] : k \in CodingCompatibleTrxs }

EndOffsets == { FpPosIn(k) - trxs[k].cds[1][2] : k \in CodingCompatibleTrxs }

\* the compatible transcripts in whose CDS body the footprint starts
FrameTrxs ==
    { k \in CodingCompatibleTrxs :
        /\ trxs[k].cds[1][1] + cdsbody[1] <= FpPosIn(k)
        /\ FpPosIn(k) <= trxs[k].cds[1][2] + cdsbody[2] }

FrameValues == { (FpPosIn(k) - trxs[k].cds[1][1]) % 3 : k \in FrameTrxs }

\* C1: with at least one compatible transcript and at most one distinct frame
\* value the outcome is Good, whatever the number of transcripts that produced
\* the frame; the common frame is present, and an offset-from-start on which
\* the transcripts disagree is withheld
C1_GoodWhenFramesAgree ==
    (pc = "gene_framing" /\ CompatibleTrxs # {} /\ Cardinality(FrameValues) <= 1) =>
        /\ ret.val.tag = "Good"
        /\ ret.val.good # None
        /\ \A v \in FrameValues : ret.val.good[1].frame = Some(v)
        /\ Cardinality(StartOffsets) > 1 => ret.val.good[1].vs_cds_start = None

\* C2: two compatible transcripts with different body-frame values give Ambig,
\* which carries no Good payload
C2_AmbigWhenFramesDiffer ==
    (pc = "gene_framing" /\ Cardinality(FrameValues) >= 2) =>
        /\ ret.panic = FALSE
        /\ ret.val.tag = "Ambig"
        /\ ret.val.good = None

\* C2 witness: two transcripts, both compatible, frames differ
C2_Witness ==
    /\ pc = "gene_framing"
    /\ Len(trxs) = 2
    /\ FrameTrxs = {1, 2}
    /\ Cardinality(FrameValues) = 2
    /\ ret.val.tag = "Ambig"

C4_NoCompatibleIffNoneCompatible ==
    pc = "gene_framing" =>
        /\ ret.panic = FALSE
        /\ (ret.val.tag = "NoCompatible") = (CompatibleTrxs = {})
        /\ CompatibleTrxs # {} => ret.val.tag \in {"Good", "Ambig"}

\* C4 witness: two transcripts, neither compatible with the footprint
C4_Witness ==
    /\ pc = "gene_framing"
    /\ Len(trxs) = 2
    /\ fp.exons[1][1] >= trxs[1].loc.exons[1][1]
    /\ CompatibleTrxs = {}
    /\ ret.val.tag = "NoCompatible"

\* C10: for a footprint starting at position i of a single coding transcript
\* with CDS [s, e) the result is Good with the transcript's gene, offset-from-
\* start i - s and offset-from-end i - e; the frame is present exactly when the
\* reported offset-from-start >= lower bound and the reported offset-from-end <=
\* upper bound, and is then congruent to the offset-from-start modulo 3
C10_SingleTranscriptOffsets ==
    (pc = "gene_framing" /\ Len(trxs) = 1 /\ CodingCompatibleTrxs = {1}) =>
        /\ ret.val.tag = "Good"
        /\ LET gf == ret.val.good[1]
               i  == FpPosIn(1)
           IN /\ gf.gene = trxs[1].gene
              /\ gf.vs_cds_start = Some(i - trxs[1].cds[1][1])
              /\ gf.vs_cds_end = Some(i - trxs[1].cds[1][2])
              /\ (gf.frame # None) =
                    (gf.vs_cds_start[1] >= cdsbody[1] /\ gf.vs_cds_end[1] <= cdsbody[2])
              /\ gf.frame # None => (gf.vs_cds_start[1] - gf.frame[1]) % 3 = 0

----------------------------------------------------------------------------
(* Properties of the Transcriptome *)

\* the identifiers the interval index holds
IndexedNames(tome) ==
    { tome.trxname_by_location[k].data : k \in 1..Len(tome.trxname_by_location) }

\* the genomic extent [first base, one past the last base) of a location
Extent(l) == <<l.exons[1][1], l.exons[Len(l.exons)][2]>>

\* two locations lie on one reference and their extents share a base
ExtentsIntersect(l, q) ==
    /\ l.refid = q.refid
    /\ \E x \in Extent(l)[1]..(Extent(l)[2] - 1) : x >= Extent(q)[1] /\ x < Extent(q)[2]

\* the elements of a sequence
Range(q) == { q[k] : k \in 1..Len(q) }

\* C18: insert of a transcript whose identifier is present returns the
\* duplicate-transcript error and changes none of the four indices; insert of
\* a new identifier returns that identifier, and afterwards the transcript is
\* the one retrieved by its identifier, its identifier is listed under its gene
\* and mapped to its gene, and a location query overlapping its extent returns it
C18_InsertDuplicateOrRecorded ==
    [][ pc' = "insert" =>
          IF transcript'.trxname \in DOMAIN trxome.trxname_to_transcript
          THEN /\ ret' = Err("TrxExists")
               /\ trxome' = trxome
          ELSE /\ ret' = Ok(transcript'.trxname)
               /\ trxome'.trxname_to_transcript[transcript'.trxname] = transcript'
               /\ trxome'.trxname_to_gene[transcript'.trxname] = transcript'.gene
               /\ transcript'.trxname \in Range(trxome'.gene_to_trxnames[transcript'.gene])
               /\ \A q \in CatalogQueries :
                     ExtentsIntersect(transcript'.loc, q) =>
                         /\ ~find_at_loc(trxome', q).panic
                         /\ transcript' \in Range(find_at_loc(trxome', q).val) ]_vars

\* C18 witness: a second transcript was refused because its identifier is taken
C18_Witness ==
    /\ pc = "insert"
    /\ ret = Err("TrxExists")
    /\ transcript.trxname \in DOMAIN trxome.trxname_to_transcript
    /\ trxome.trxname_to_transcript[transcript.trxname] # transcript
    /\ Len(trxome.trxname_by_location) = 2

\* C19: find_at_loc(q) returns exactly the inserted transcripts on q's
\* reference whose half-open extent [start, end) intersects the extent of q,
\* whether q lies in an exon or in an intron: a query starting at a
\* transcript's end does not find it, one on its first base does, a transcript
\* on another reference is never returned, and no transcript splice-compatible
\* with q is omitted
C19_FindAtLocExactlyExtentOverlaps ==
    pc = "find_at_loc" =>
        /\ ret.panic = FALSE
        /\ Len(ret.val) = Cardinality(Range(ret.val))
        /\ Range(ret.val) =
              { trxome.trxname_to_transcript[n] : n \in
                  { m \in DOMAIN trxome.trxname_to_transcript :
                      ExtentsIntersect(trxome.trxname_to_transcript[m].loc, loc) } }
        /\ \A n \in DOMAIN trxome.trxname_to_transcript :
              LET t == trxome.trxname_to_transcript[n]
              IN /\ (t.loc.refid = loc.refid /\ Extent(loc) = <<Extent(t.loc)[1], Extent(t.loc)[1] + 1>>)
                    => t \in Range(ret.val)
                 /\ (t.loc.refid = loc.refid /\ Extent(loc)[1] = Extent(t.loc)[2])
                    => t \notin Range(ret.val)
                 /\ (t.loc.refid = loc.refid /\ Extent(loc)[1] >= Extent(t.loc)[1]
                       /\ Extent(loc)[2] <= Extent(t.loc)[2])
                    => t \in Range(ret.val)
                 /\ t.loc.refid # loc.refid => t \notin Range(ret.val)
                 /\ BlocksMapAndAbut(t.loc, loc) => t \in Range(ret.val)

\* C19 witness: a query inside the intron of a two-exon transcript finds it,
\* and not the other transcript of the catalogue
C19_Witness ==
    /\ pc = "find_at_loc"
    /\ Len(trxome.trxname_by_location) = 2
    /\ Len(ret.val) = 1
    /\ Len(ret.val[1].loc.exons) = 2
    /\ Len(loc.exons) = 1
    /\ loc.exons[1][1] = ret.val[1].loc.exons[1][2]
    /\ loc.exons[1][2] = ret.val[1].loc.exons[2][1]

----------------------------------------------------------------------------
(* Properties of Transcript::from_bed12 *)

\* the block columns are present, agree with the block count and describe
\* non-empty blocks from offset 0 on, separated by at least one base
BedBlocksWellFormed(r) ==
    /\ r.block_count # None /\ r.block_sizes # None /\ r.block_starts # None
    /\ Len(r.block_sizes[1]) = r.block_count[1]
    /\ Len(r.block_starts[1]) = r.block_count[1]
    /\ r.block_count[1] >= 1
    /\ r.block_starts[1][1] = 0
    /\ \A k \in 1..r.block_count[1] : r.block_sizes[1][k] >= 1
    /\ \A k \in 2..r.block_count[1] :
          r.block_starts[1][k] > r.block_starts[1][k - 1] + r.block_sizes[1][k - 1]

\* the block count disagrees with the number of block sizes or of block starts
BedBlockCountDisagrees(r) ==
    /\ r.block_count # None /\ r.block_sizes # None /\ r.block_starts # None
    /\ \/ Len(r.block_sizes[1]) # r.block_count[1]
       \/ Len(r.block_starts[1]) # r.block_count[1]

\* the genomic bases of the blocks of a record
BedExonicBases(r) ==
    UNION { (r.start + r.block_starts[1][k])..(r.start + r.block_starts[1][k] + r.block_sizes[1][k] - 1) :
              k \in 1..r.block_count[1] }

\* one past the last base of the transcript of a record
BedEnd(r) ==
    r.start + r.block_starts[1][r.block_count[1]] + r.block_sizes[1][r.block_count[1]]

\* the record names a transcript, a strand and well-formed blocks
BedTranscriptWellFormed(r) ==
    /\ BedBlocksWellFormed(r)
    /\ r.name # None
    /\ r.strand \in {Some("+"), Some("-")}

\* thickStart and thickEnd are present and delimit a non-empty range
BedHasThick(r) ==
    /\ r.thick_start # None /\ r.thick_end # None
    /\ r.thick_start[1] < r.thick_end[1]

\* the transcript coordinates of the exonic bases of l in genomic [from, to)
TranscriptImage(l, from, to) ==
    { BasesBefore(l, g) : g \in { x \in ExonicBases(l) : x >= from /\ x < to } }

\* C20: from_bed12 either fails or returns a transcript whose CDS, if present,
\* has 0 <= start < end <= exon total length and covers exactly the transcript
\* coordinates of the exonic bases of genomic [thickStart, thickEnd), on either
\* strand.  With a non-empty thick range it fails when thickStart lies before
\* the first base or thickEnd beyond the last base of the transcript, and
\* accepts a thickEnd equal to the transcript's end; it fails when the block
\* count disagrees with the number of sizes or starts and when the strand is
\* neither + nor -; on an otherwise well-formed record thickStart >= thickEnd
\* gives a transcript without CDS
C20_FromBed12Cds ==
    pc = "from_bed12" =>
        /\ ret.ok =>
              LET t == ret.val[1]
              IN /\ BedTranscriptWellFormed(record)
                 /\ ExonicBases(t.loc) = BedExonicBases(record)
                 /\ (t.cds # None) = BedHasThick(record)
                 /\ t.cds # None =>
                       /\ 0 <= t.cds[1][1]
                       /\ t.cds[1][1] < t.cds[1][2]
                       /\ t.cds[1][2] <= exon_total_length(t.loc)
                       /\ (t.cds[1][1])..(t.cds[1][2] - 1) =
                             TranscriptImage(t.loc, record.thick_start[1], record.thick_end[1])
        /\ BedBlockCountDisagrees(record) => ~ret.ok
        /\ (record.strand # None /\ record.strand[1] \notin {"+", "-"}) => ~ret.ok
        /\ (BedTranscriptWellFormed(record) /\ BedHasThick(record)) =>
              /\ record.thick_start[1] < record.start => ~ret.ok
              /\ record.thick_end[1] > BedEnd(record) => ~ret.ok
              /\ (record.thick_end[1] = BedEnd(record)
                    /\ record.thick_start[1] \in BedExonicBases(record)) => ret.ok
        /\ (BedTranscriptWellFormed(record) /\ ~BedHasThick(record)) =>
              /\ ret.ok
              /\ ret.val[1].cds = None

\* C20 witness: a two-block reverse-strand record whose thickEnd is the
\* transcript's end and whose thickStart lies in the first block
C20_Witness ==
    /\ pc = "from_bed12"
    /\ ret.ok
    /\ record.strand = Some("-")
    /\ record.block_count = Some(2)
    /\ BedHasThick(record)
    /\ record.thick_end = Some(BedEnd(record))
    /\ record.thick_start[1] > record.start
    /\ record.thick_start[1] < record.start + record.block_sizes[1][1]
    /\ ret.val[1].cds # None
    /\ ret.val[1].cds[1][1] = 0
    /\ ret.val[1].cds[1][2] < exon_total_length(ret.val[1].loc)

----------------------------------------------------------------------------
(* Properties of footprint_framing *)

\* the transcripts of the transcriptome
Catalogued == { trxome.trxname_to_transcript[n] : n \in DOMAIN trxome.trxname_to_transcript }

\* the overlap set: the transcripts whose extent the footprint's extent intersects
Overlapped == { t \in Catalogued : ExtentsIntersect(t.loc, fp) }

\* the transcripts that share an exonic base with the footprint
ExonOverlapped ==
    { t \in Catalogued : t.loc.refid = fp.refid /\ ExonicBases(t.loc) \cap ExonicBases(fp) # {} }

GenesOf(ts) == { t.gene : t \in ts }

\* the genes with a coding transcript among ts
CodingGenesOf(ts) == { t.gene : t \in { u \in ts : u.cds # None } }

\* C15: when the overlap set groups into two or more genes the outcome is
\* MultiCoding iff every gene has a coding transcript in it, NoncodingOverlap
\* iff some but not all genes have one, NoncodingOnly iff none has; when it
\* groups into one gene the outcome is NoncodingOnly iff the gene has no coding
\* transcript in it and otherwise Gene(gene_framing of that gene's coding
\* transcripts); the outcome is the same for every iteration order
C15_FootprintFramingByGenes ==
    pc = "footprint_framing" =>
        LET genes  == GenesOf(Overlapped)
            coding == CodingGenesOf(Overlapped)
        IN /\ ret.panic = FALSE
           /\ Cardinality(genes) >= 2 =>
                 /\ ret.val.tag \in {"MultiCoding", "NoncodingOverlap", "NoncodingOnly"}
                 /\ (ret.val.tag = "MultiCoding") = (coding = genes)
                 /\ (ret.val.tag = "NoncodingOverlap") = (coding # {} /\ coding # genes)
                 /\ (ret.val.tag = "NoncodingOnly") = (coding = {})
           /\ Cardinality(genes) = 1 =>
                 /\ (ret.val.tag = "NoncodingOnly") = (coding = {})
                 /\ coding # {} =>
                       /\ ret.val.tag = "Gene"
                       /\ \A order \in Orderings(SeqOfSet({ t \in Overlapped : t.cds # None })) :
                             ret.val = Gene(gene_framing(cdsbody, order, fp).val)

\* C15 witness: two genes overlap, one with a coding and a non-coding
\* transcript and one with a coding transcript only
C15_Witness ==
    /\ pc = "footprint_framing"
    /\ Cardinality(Overlapped) = 3
    /\ Cardinality(GenesOf(Overlapped)) = 2
    /\ Cardinality({ t \in Overlapped : t.cds = None }) = 1
    /\ ret.val.tag = "MultiCoding"

\* C16 as claimed: NoGene exactly when no transcript shares an exonic base
\* with the footprint, and a multi-gene outcome only when transcripts of two
\* genes share an exonic base with it
C16_NoGeneIffNoExonOverlap ==
    pc = "footprint_framing" =>
        /\ (ret.val.tag = "NoGene") = (ExonOverlapped = {})
        /\ ret.val.tag \in {"MultiCoding", "NoncodingOverlap"} =>
              Cardinality(GenesOf(ExonOverlapped)) >= 2

\* C16 amended: NoGene exactly when the footprint's extent intersects the
\* extent of no transcript on its reference, and a multi-gene outcome only
\* when it intersects the extents of transcripts of two genes; a transcript
\* that only has the footprint inside an intron counts as overlapping
C16_NoGeneIffNoExtentOverlap ==
    pc = "footprint_framing" =>
        /\ ret.panic = FALSE
        /\ (ret.val.tag = "NoGene") = (Overlapped = {})
        /\ ret.val.tag \in {"MultiCoding", "NoncodingOverlap"} =>
              Cardinality(GenesOf(Overlapped)) >= 2
        /\ (ExonOverlapped = {} /\ Overlapped # {}) => ret.val.tag # "NoGene"

\* C16 witness: a footprint inside the intron of a coding transcript of one
\* gene and on an exon of another gene is reported as overlapping two genes
C16_Witness ==
    /\ pc = "footprint_framing"
    /\ Cardinality(Overlapped) = 2
    /\ Cardinality(ExonOverlapped) = 1
    /\ ret.val.tag = "MultiCoding"

----------------------------------------------------------------------------
(* Properties of the record loop *)

\* the record of the last iteration has been classified or has ended the run
Processed == pc \in {"tallied", "aborted", "panicked"}

\* the retention rule on the tags of the record
Retained == rec.nh = None \/ rec.nh = Some(1) \/ (count_multi /\ rec.hi = Some(1))

\* the name of the terminal outcome of a classification
OutcomeName(bfr) ==
    IF bfr.tag # "Fp" THEN bfr.tag
    ELSE IF bfr.fp[1].tag # "Gene" THEN bfr.fp[1].tag
    ELSE bfr.fp[1].gene[1].tag

OutcomeNames ==
    {"NoHit", "MultiHit", "TooShort", "TooLong", "NoGene", "NoncodingOnly",
     "NoncodingOverlap", "MultiCoding", "NoCompatible", "Ambig", "Good"}

\* the terminal-outcome counters of the statistics, by outcome name
Counters(fs) ==
    [n \in OutcomeNames |->
        CASE n = "NoHit"            -> fs.align_stats.unmapped
          [] n = "MultiHit"         -> fs.align_stats.multi_hit
          [] n = "TooShort"         -> fs.align_stats.short
          [] n = "TooLong"          -> fs.align_stats.long
          [] n = "NoGene"           -> fs.align_stats.annot_stats.no_gene
          [] n = "NoncodingOnly"    -> fs.align_stats.annot_stats.noncoding
          [] n = "NoncodingOverlap" -> fs.align_stats.annot_stats.noncoding_overlap
          [] n = "MultiCoding"      -> fs.align_stats.annot_stats.multi_coding
          [] n = "NoCompatible"     -> fs.align_stats.annot_stats.incompatible
          [] n = "Ambig"            -> fs.align_stats.annot_stats.ambig
          [] n = "Good"             -> fs.align_stats.annot_stats.good]

RECURSIVE SumOver(_, _)
SumOver(f, S) ==
    IF S = {} THEN 0
    ELSE LET x == CHOOSE y \in S : TRUE IN f[x] + SumOver(f, S \ {x})

C12_OneCounterPerRecord ==
    /\ [](/\ SumOver(Counters(framing_stats), OutcomeNames) = nrec
          /\ AlignStats_total(framing_stats.align_stats) = nrec
          /\ AlignStats_total(framing_stats.align_stats)
                = AlignStats_bad_total(framing_stats.align_stats)
                  + AlignStats_good_total(framing_stats.align_stats)
          /\ AlignStats_good_total(framing_stats.align_stats)
                = SumOver(Counters(framing_stats),
                          OutcomeNames \ {"NoHit", "MultiHit", "TooShort", "TooLong"}))
    /\ [][pc' = "tallied" =>
            /\ nrec' = nrec + 1
            /\ Counters(framing_stats') =
                  [Counters(framing_stats) EXCEPT ![OutcomeName(ret'.val.val[1])] = @ + 1]]_vars

\* C12 witness: two records tallied, one Good and one TooLong
C12_Witness ==
    /\ pc = "tallied"
    /\ nrec = 2
    /\ Counters(framing_stats)["Good"] = 1
    /\ Counters(framing_stats)["TooLong"] = 1

\* C13 as claimed: an unmapped record is classified NoHit and the statistics
\* change in the NoHit counter only, whatever the tags and count-multi are
C13_UnmappedIsNoHit ==
    [][(rec'.tid < 0 /\ pc' \in {"tallied", "aborted", "panicked"}) =>
          /\ ret' = Returned(Ok(NoHit))
          /\ framing_stats' = [framing_stats EXCEPT !.align_stats.unmapped = @ + 1]]_vars

\* the reference bases a CIGAR aligns (introns excluded)
RECURSIVE AlignedLength(_)
AlignedLength(cigar) ==
    IF cigar = <<>> THEN 0
    ELSE (IF Head(cigar).op \in {"Match", "Del", "Equal", "Diff"} THEN Head(cigar).len ELSE 0)
         + AlignedLength(Tail(cigar))

\* C14: a retained mapped record that is classified is TooShort iff its
\* exonic length is below min, TooLong iff it is above max, and goes on to
\* footprint classification iff min <= length <= max
C14_LengthWindow ==
    (pc = "tallied" /\ Retained /\ rec.tid >= 0) =>
        LET n == AlignedLength(rec.cigar)
            t == ret.val.val[1].tag
        IN /\ (t = "TooShort") = (n < lengths[1])
           /\ (t = "TooLong") = (n > lengths[2])
           /\ (t = "Fp") = (lengths[1] <= n /\ n <= lengths[2])

\* C14 witness: a spliced record of exonic length max, spanning more than
\* max bases of the reference, is classified as a footprint
C14_Witness ==
    /\ pc = "tallied"
    /\ \E k \in 1..Len(rec.cigar) : rec.cigar[k].op = "RefSkip"
    /\ AlignedLength(rec.cigar) = lengths[2]
    /\ ret.val.val[1].tag = "Fp"

\* the aligned blocks of a CIGAR cannot form a spliced location: no base is
\* aligned, or an intron comes before the first aligned base
NoSplicedLocation(cigar) ==
    LET aligned == { k \in 1..Len(cigar) : cigar[k].op \in {"Match", "Del", "Equal", "Diff"} }
    IN \/ aligned = {}
       \/ \E k \in 1..Len(cigar) :
             /\ cigar[k].op = "RefSkip"
             /\ \A a \in aligned : k < a

\* C17: the run is aborted by an error only for a retained mapped record whose
\* reference index is absent from the table or whose blocks form no spliced
\* location; every other record gets one of the eleven outcomes as a value,
\* which is tallied, and the loop goes on to the next record
C17_ErrorsOnlyFromSplicing ==
    /\ pc # "panicked"
    /\ pc = "aborted" =>
          /\ ~ret.val.ok
          /\ Retained /\ rec.tid >= 0
          /\ Tids_get(tids, rec.tid) = None \/ NoSplicedLocation(rec.cigar)
    /\ pc = "tallied" =>
          /\ ret.val.ok
          /\ OutcomeName(ret.val.val[1]) \in OutcomeNames
          /\ Counters(framing_stats)[OutcomeName(ret.val.val[1])] >= 1
          /\ nrec < MaxRecords => ENABLED ProcessRecord

\* C17 witness: a retained record on a reference index beyond the table ends the run
\* after an earlier record was tallied
C17_Witness ==
    /\ pc = "aborted"
    /\ nrec = 1
    /\ rec.tid >= 0 /\ Tids_get(tids, rec.tid) = None
    /\ ret.val.err = "BAM target ID out of range"

----------------------------------------------------------------------------
(* Properties of the A-site table *)

\* a number of the table: ASCII digits with a value of at most usize::MAX
IsNumber(d) ==
    /\ d # <<>> /\ \A k \in 1..Len(d) : d[k] \in Digits
    /\ LET z == strip_zeros(d)
       IN \/ Len(z) < Len(UsizeMaxDigits)
          \/ Len(z) = Len(UsizeMaxDigits) /\ ~digits_greater(z, UsizeMaxDigits)

\* the characters of the line from the k-th on are spaces and tabs
BlankFrom(line, k) == \A j \in k..Len(line) : line[j] \in Whitespace

\* the line is a number up to t, the separator sep from t on, a number up to e
\* and then spaces and tabs only
Columns(line, t, sep, e) ==
    /\ t + Len(sep) <= e /\ e <= Len(line)
    /\ SubSeq(line, t, t + Len(sep) - 1) = sep
    /\ IsNumber(SubSeq(line, 1, t - 1))
    /\ IsNumber(SubSeq(line, t + Len(sep), e))
    /\ BlankFrom(line, e + 1)

\* the line has the shape of a line of the table: number, one tab, number
WellShaped(line) ==
    \E t \in 1..Len(line) : line[t] = "TAB" /\ \E e \in t..Len(line) : Columns(line, t, <<"TAB">>, e)

\* the line gives the offset o for the length n
LineGives(line, n, o) ==
    \E t \in 1..Len(line) :
        /\ line[t] = "TAB"
        /\ \E e \in t..Len(line) :
              /\ Columns(line, t, <<"TAB">>, e)
              /\ digits_value(strip_zeros(SubSeq(line, 1, t - 1))) = n
              /\ digits_value(strip_zeros(SubSeq(line, t + 1, e))) = o

\* the shape the claim gives: two numbers separated by spaces or tabs
SpaceShaped(line) ==
    \E t \in 1..Len(line), e \in 1..Len(line) :
        /\ line[t] \in Whitespace
        /\ \E n \in 1..Len(line) :
              /\ IsNumber(SubSeq(line, 1, t - 1))
              /\ t + n <= e
              /\ \A k \in t..(t + n - 1) : line[k] \in Whitespace
              /\ IsNumber(SubSeq(line, t + n, e))
              /\ e = Len(line)

\* the prefixes of a line
Prefixes(line) == { SubSeq(line, 1, k) : k \in 0..Len(line) }

\* the offsets of the tables
ASiteOffsets == 0..15

\* the lines of the table that give an offset for the length n
LinesFor(n) == { k \in 1..Len(table) : \E o \in ASiteOffsets : LineGives(table[k], n, o) }

\* C21: offset(len) is the offset of the last line of the table with that
\* length, present even when it is 0, and nothing for a length without a
\* line; on the table 27 -> 14, 28 -> 15 the offsets of 26, 27, 28, 29 are
\* nothing, 14, 15, nothing
C21_OffsetOfLastLine ==
    pc = "offset" =>
        /\ LinesFor(qlen) = {} => ret = None
        /\ LinesFor(qlen) # {} =>
              LET last == CHOOSE k \in LinesFor(qlen) : \A j \in LinesFor(qlen) : j <= k
              IN /\ ret # None
                 /\ LineGives(table[last], qlen, ret[1])
        /\ table = ExampleTable =>
              /\ qlen = 26 => ret = None
              /\ qlen = 27 => ret = Some(14)
              /\ qlen = 28 => ret = Some(15)
              /\ qlen = 29 => ret = None

\* C21 witness: two lines for the same length, the last one with offset 0
C21_Witness ==
    /\ pc = "offset"
    /\ Cardinality(LinesFor(qlen)) = 2
    /\ LineGives(table[1], qlen, 3)
    /\ ret = Some(0)

----------------------------------------------------------------------------
(* Properties of LenProfile, Metagene and FramingStats *)

\* the cells of a profile in order: underflow, one per length, overflow
AllCells(p) == <<p.short>> \o p.len_vec \o <<p.long>>

\* the place in AllCells of the cell a length belongs to in a profile built
\* with (min, max)
CellPlace(mm, len) ==
    IF len < mm[1] THEN 1
    ELSE IF len > mm[2] \/ mm[1] > mm[2] THEN Len(AllCells(LenProfile_new(mm[1], mm[2], 0)))
    ELSE 2 + (len - mm[1])

\* the place in AllCells of a cell get or get_mut returned
PlaceOf(p, c) ==
    IF c.kind = "short" THEN 1
    ELSE IF c.kind = "long" THEN Len(p.len_vec) + 2
    ELSE c.index + 2

\* C23: get and get_mut resolve every length to a cell, the same one: the
\* underflow cell below min, the length's own cell from min to max, the
\* overflow cell above max; there are max - min + 1 per-length cells, none
\* when min > max; an increment adds one to the resolved cell and changes no
\* other cell
C23_LenProfileTotal ==
    /\ [](pc = "increment" =>
            /\ Len(profile.len_vec) = IF minmax[1] > minmax[2] THEN 0
                                      ELSE minmax[2] - minmax[1] + 1
            /\ call.get = call.get_mut
            /\ PlaceOf(profile, call.get_mut) = CellPlace(minmax, call.len)
            /\ \A l1, l2 \in minmax[1]..minmax[2] :
                  l1 # l2 => CellPlace(minmax, l1) # CellPlace(minmax, l2)
            /\ \A l \in minmax[1]..minmax[2] :
                  CellPlace(minmax, l) \notin {1, Len(AllCells(profile))}
            /\ ret = Some(AllCells(profile)[CellPlace(minmax, call.len)]))
    /\ [][pc' = "increment" =>
            AllCells(profile') =
               [AllCells(profile) EXCEPT ![CellPlace(minmax, call'.len)] = @ + 1]]_vars

\* C23 witness: in a profile built with min > max a length between max and
\* min went to the underflow cell and a length above min to the overflow cell
C23_Witness ==
    /\ pc = "increment"
    /\ minmax[1] > minmax[2]
    /\ profile.len_vec = <<>>
    /\ profile.short = 1 /\ profile.long = 1
    /\ call.len > minmax[1]

\* the histograms of a FramingStats
Histograms(fs) == <<fs.frame_length, fs.around_start, fs.around_end>>

\* the position is one of the metagene's cells
InMetagene(mg, p) == mg.start <= p /\ p < mg.start + Len(mg.pos_vec)

\* the Good payload of a classification, if any
GoodOf(bfr) ==
    IF bfr.tag = "Fp" /\ bfr.fp[1].tag = "Gene" /\ bfr.fp[1].gene[1].tag = "Good"
    THEN bfr.fp[1].gene[1].good
    ELSE None

\* C24: Metagene::get and get_mut give a cell iff start <= pos < start + len;
\* tally_around_start and tally_around_end outside the range change nothing;
\* tally_bam_frame changes a histogram only for a Good result: the frame
\* histogram iff the frame is present, each metagene iff its offset is
\* present and in range
C24_OutOfRangeNotTallied ==
    [][/\ call'.op = "tally_around_start" =>
            /\ (call'.get_mut # None) = InMetagene(fstats[1].around_start, call'.offset)
            /\ call'.get = call'.get_mut
            /\ ~InMetagene(fstats[1].around_start, call'.offset) => fstats' = fstats
            /\ fstats'[1].around_end = fstats[1].around_end
       /\ call'.op = "tally_around_end" =>
            /\ (call'.get_mut # None) = InMetagene(fstats[1].around_end, call'.offset)
            /\ call'.get = call'.get_mut
            /\ ~InMetagene(fstats[1].around_end, call'.offset) => fstats' = fstats
            /\ fstats'[1].around_start = fstats[1].around_start
       /\ call'.op = "tally_bam_frame" =>
            LET g == GoodOf(call'.bfr)
            IN /\ g = None => Histograms(fstats'[1]) = Histograms(fstats[1])
               /\ g # None =>
                    /\ (fstats'[1].frame_length # fstats[1].frame_length) = (g[1].frame # None)
                    /\ (fstats'[1].around_start # fstats[1].around_start)
                          = (/\ g[1].vs_cds_start # None
                             /\ InMetagene(fstats[1].around_start, g[1].vs_cds_start[1]))
                    /\ (fstats'[1].around_end # fstats[1].around_end)
                          = (/\ g[1].vs_cds_end # None
                             /\ InMetagene(fstats[1].around_end, g[1].vs_cds_end[1]))]_vars

\* C24 witness: a Good result without a frame, with an offset from the start
\* at the end of the flanking range and an offset from the end inside it, has
\* changed the end metagene only
C24_Witness ==
    /\ pc = "tally"
    /\ ncall = 1
    /\ call.op = "tally_bam_frame"
    /\ GoodOf(call.bfr) # None
    /\ GoodOf(call.bfr)[1].frame = None
    /\ GoodOf(call.bfr)[1].vs_cds_start = Some(flank[2])
    /\ GoodOf(call.bfr)[1].vs_cds_end = Some(flank[1])
    /\ fstats[1].frame_length = FramingStats_new(minmax, flank).frame_length
    /\ fstats[1].around_start = FramingStats_new(minmax, flank).around_start
    /\ fstats[1].around_end # FramingStats_new(minmax, flank).around_end

\* C29 as claimed: FramingStats::new gives both metagenes end - start cells
\* from position start on when start <= end and no cell when start > end, and
\* the number of cells is computed without an underflow of the unsigned
\* subtraction
C29_FlankingCellsNoUnderflow ==
    call.op = "new" =>
        /\ pc # "panicked"
        /\ ~call.underflow
        /\ fstats # None
        /\ \A mg \in {fstats[1].around_start, fstats[1].around_end} :
              /\ mg.start = flank[1]
              /\ Len(mg.pos_vec) = IF flank[1] <= flank[2] THEN flank[2] - flank[1] ELSE 0

----------------------------------------------------------------------------
(* Properties of the histograms in the record loop *)

RECURSIVE SumSeq(_)
SumSeq(q) == IF q = <<>> THEN 0 ELSE Head(q) + SumSeq(Tail(q))

\* the number of tallies in a frame-by-length histogram
FrameLengthTotal(p) ==
    SumSeq([k \in 1..Len(AllCells(p)) |-> SumSeq(AllCells(p)[k])])

\* the number of tallies in a metagene
MetageneTotal(mg) ==
    SumSeq([k \in 1..Len(mg.pos_vec) |-> SumSeq(AllCells(mg.pos_vec[k]))])

\* C28: with the histograms built for the lengths record_framing accepts,
\* after any sequence of processed records the underflow and overflow cells
\* of the frame-by-length histogram and of every position of both metagenes
\* are zero, and the frame-by-length cells, and the cells of each metagene,
\* sum to at most the Good counter
C28_WindowCellsStayZero ==
    LET good == framing_stats.align_stats.annot_stats.good
    IN /\ framing_stats.frame_length.short = Frame_new(0)
       /\ framing_stats.frame_length.long = Frame_new(0)
       /\ \A mg \in {framing_stats.around_start, framing_stats.around_end} :
             /\ \A k \in 1..Len(mg.pos_vec) :
                   mg.pos_vec[k].short = 0 /\ mg.pos_vec[k].long = 0
             /\ MetageneTotal(mg) <= good
       /\ FrameLengthTotal(framing_stats.frame_length) <= good

\* C28 witness: a too-long record and a Good record have been processed;
\* the Good one is in the frame-by-length histogram and in neither metagene,
\* its offsets from the start and the end being outside the flanking range
C28_Witness ==
    /\ pc = "tallied"
    /\ framing_stats.align_stats.long = 1
    /\ framing_stats.align_stats.annot_stats.good = 1
    /\ FrameLengthTotal(framing_stats.frame_length) = 1
    /\ MetageneTotal(framing_stats.around_start) = 0
    /\ MetageneTotal(framing_stats.around_end) = 0

----------------------------------------------------------------------------
(* Consistency of the indices of Transcriptome *)

\* the places (gene, position) of an identifier in the gene -> ids lists
PlacesOf(tome, n) ==
    { gk \in UNION { {g} \X (1..Len(tome.gene_to_trxnames[g])) :
                        g \in DOMAIN tome.gene_to_trxnames } :
         tome.gene_to_trxnames[gk[1]][gk[2]] = n }

\* C27: after any calls of insert, successful or failing, the interval index,
\* the id -> gene map and the id -> transcript map hold the same identifiers;
\* each of them is exactly once in the gene -> ids lists, under the gene
\* recorded for it, and the lists hold no other identifier; find_at_loc finds
\* the transcript of every index entry
C27_IndicesConsistent ==
    /\ IndexedNames(trxome) = DOMAIN trxome.trxname_to_gene
    /\ IndexedNames(trxome) = DOMAIN trxome.trxname_to_transcript
    /\ \A n \in DOMAIN trxome.trxname_to_transcript :
          /\ Cardinality(PlacesOf(trxome, n)) = 1
          /\ \A gk \in PlacesOf(trxome, n) : gk[1] = trxome.trxname_to_gene[n]
    /\ \A g \in DOMAIN trxome.gene_to_trxnames :
          \A k \in 1..Len(trxome.gene_to_trxnames[g]) :
              trxome.gene_to_trxnames[g][k] \in DOMAIN trxome.trxname_to_transcript
    /\ pc = "find_at_loc" => ~ret.panic

\* C27 witness: with two identifiers recorded, an insert of one of them under
\* another gene has failed
C27_Witness ==
    /\ pc = "insert"
    /\ ~ret.ok
    /\ Cardinality(DOMAIN trxome.trxname_to_transcript) = 2
    /\ transcript.trxname \in DOMAIN trxome.trxname_to_gene
    /\ transcript.gene # trxome.trxname_to_gene[transcript.trxname]

----------------------------------------------------------------------------
(* Properties of the grouping iterator *)

\* the reader gives records only, each not lower than the one before
NonDecreasing(st) ==
    /\ \A k \in 1..Len(st) : st[k] # ReadFailure
    /\ \A k \in 1..(Len(st) - 1) : cmp_location(st[k], st[k + 1]) # "Greater"

\* the groups yielded, one after the other
RECURSIVE Concatenation(_)
Concatenation(items) ==
    IF items = <<>> THEN <<>>
    ELSE (IF Head(items).ok THEN Head(items).val[1] ELSE <<>>) \o Concatenation(Tail(items))

\* the first place where the reader gives a record lower than the one before
\* it, after records only
FirstDescent(st) ==
    { d \in 1..(Len(st) - 1) :
         /\ NonDecreasing(SubSeq(st, 1, d))
         /\ st[d + 1] # ReadFailure
         /\ cmp_location(st[d], st[d + 1]) = "Greater" }

\* the place of the first of the records equal to the one at place d
GroupStart(st, d) ==
    CHOOSE s \in 1..d :
        /\ \A k \in s..d : cmp_location(st[k], st[d]) = "Equal"
        /\ s > 1 => cmp_location(st[s - 1], st[d]) # "Equal"

\* C25: on a reader that gives records in non-decreasing order, every item
\* yielded is a group, not empty, of records equal to its first; each group is
\* above the one before; the groups and the look-ahead record are, in order,
\* the records read so far, and all the records once the iterator has ended;
\* next() gives None when, and only when, no look-ahead record is left.  On a
\* reader whose first descent is at d, the groups before the group of d are
\* yielded and then, instead of that group, the out-of-order error
C25_GroupsPartitionTheInput ==
    /\ [](NonDecreasing(stream) =>
            /\ pc # "failed"
            /\ \A k \in 1..Len(yielded) :
                  /\ yielded[k].ok
                  /\ yielded[k].val[1] # <<>>
                  /\ \A j \in 1..Len(yielded[k].val[1]) :
                        cmp_location(yielded[k].val[1][1], yielded[k].val[1][j]) = "Equal"
                  /\ k > 1 => cmp_location(yielded[k - 1].val[1][1],
                                           yielded[k].val[1][1]) = "Less"
            /\ Concatenation(yielded) \o next_record = SubSeq(stream, 1, nread)
            /\ pc = "ended" => Concatenation(yielded) = stream)
    /\ [][pc = "groups" => (pc' = "ended") = (next_record = None)]_vars
    /\ [](\A d \in FirstDescent(stream) :
            /\ Concatenation(yielded)
                   = SubSeq(stream, 1, min(nread - Len(next_record),
                                           GroupStart(stream, d) - 1))
            /\ \A k \in 1..Len(yielded) :
                  ~yielded[k].ok =>
                     /\ k = Len(yielded)
                     /\ yielded[k].err = OutOfOrder(stream[GroupStart(stream, d)],
                                                     stream[d + 1])
            /\ pc = "ended" => /\ yielded # <<>>
                               /\ ~yielded[Len(yielded)].ok)

\* C25 witness: three records in order, the first two equal, have been
\* yielded as two groups and the iterator has ended
C25_Witness ==
    /\ pc = "ended"
    /\ Len(stream) = 3
    /\ Len(yielded) = 2
    /\ yielded[1] = Ok(<<stream[1], stream[2]>>)
    /\ yielded[2] = Ok(<<stream[3]>>)
    /\ stream[1] # stream[2]

----------------------------------------------------------------------------
(* Properties of the duplicate suppression *)

\* the mapping sites of a location group: its records by CIGAR
SitesOf(grp) == { SelectSeq(grp, LAMBDA r : r.raw_cigar = c) : c \in { r.raw_cigar : r \in Range(grp) } }

\* the tagged reads of a site and their tags
Tagged(site) == SelectSeq(site, LAMBDA r : read_tag(r) # None)

TagsOf(site) == { read_tag(r)[1] : r \in Range(Tagged(site)) }

\* adding the entries of a group to a table of entries: one entry
\* (tagged reads, unique tags) for each of its sites
RECURSIVE WithSites(_, _)
WithSites(entries, sites) ==
    IF sites = {} THEN entries
    ELSE LET site == CHOOSE x \in sites : TRUE
             idx  == Stats_index(Stats_new(DEFAULT_NLIM), Len(Tagged(site)),
                                 Cardinality(TagsOf(site)))
         IN WithSites(Put(entries, idx,
                          (IF idx \in DOMAIN entries THEN entries[idx] ELSE 0) + 1),
                      sites \ {site})

\* C26: a location group adds to the statistics one entry for each of its
\* mapping sites, (tagged reads at the site, unique tags at the site); each of
\* its untagged reads is written to the unique output and counted as
\* untagged, and as nothing else
C26_OneEntryPerSite ==
    [][pc' = "group" =>
         LET sites == SitesOf(loc_group')
         IN /\ config'.stats.counts
                  = WithSites(config.stats.counts,
                              { x \in sites : Tagged(x) # <<>> })
            /\ config'.stats.total_sites_count
                  = config.stats.total_sites_count
                    + Cardinality({ x \in sites : Tagged(x) # <<>> })
            /\ config'.stats.untagged_count
                  = config.stats.untagged_count
                    + Len(SelectSeq(loc_group', LAMBDA r : read_tag(r) = None))
            /\ \A k \in 1..Len(loc_group') :
                  read_tag(loc_group'[k]) = None =>
                     \E j \in (Len(config.uniq_output) + 1)..Len(config'.uniq_output) :
                         config'.uniq_output[j] = loc_group'[k]]_vars

----------------------------------------------------------------------------
(* Properties of the sample map *)

\* every insert so far has succeeded
AllInserted == pc = "insert" => ret.ok

\* the samples inserted: the entries after the unknown one
InsertedEntries == { sample_map.entries[k] : k \in 2..Len(sample_map.entries) }

\* q is the index, or the index with one position replaced by a base
Near(q, index) ==
    /\ Len(q) = Len(index)
    /\ \/ q = index
       \/ \E p \in 1..Len(index) :
             /\ q[p] # index[p]
             /\ q[p] \in {"A", "C", "G", "T"}
             /\ \A j \in 1..Len(index) : j # p => q[j] = index[j]

\* what a query of q has to return
Resolved(q) ==
    IF Len(q) # sample_map.index_length
    THEN Err(IndexBadLength(sample_map.index_length, q))
    ELSE IF \E e \in InsertedEntries : Near(q, e.true_index)
    THEN Ok((CHOOSE e \in InsertedEntries : Near(q, e.true_index)).thing)
    ELSE Ok(UnknownSample(sample_map.index_length))

\* C30: after successful inserts with mismatches allowed, a query of the
\* configured length returns a sample iff it is the sample's index or differs
\* from it at one position by a base, and the unknown sample otherwise; no
\* query is that close to two samples; an insert fails with an index clash
\* iff its index or one of its single-mismatch variants is mapped already;
\* a query or an inserted index of another length is an error
C30_SingleMismatchLookup ==
    /\ [](AllInserted =>
            /\ pc \in {"get", "get_mut"} => ret = Resolved(query)
            /\ pc = "insert" =>
                  /\ \A q \in SampleQueries(sample_map) :
                        /\ SampleMap_get(sample_map, q) = Resolved(q)
                        /\ SampleMap_get_mut(sample_map, q) = Resolved(q)
                        /\ \A e1, e2 \in InsertedEntries :
                              (Near(q, e1.true_index) /\ Near(q, e2.true_index)) => e1 = e2
                  /\ \A e \in InsertedEntries : e.thing # sample_map.unknown.thing)
    /\ [][pc' = "insert" =>
            LET mapped == { q \in IndicesOfLen(Len(query')) :
                              /\ Near(q, query')
                              /\ \E e \in InsertedEntries : Near(q, e.true_index) }
            IN IF Len(query') # sample_map.index_length
               THEN ret' = Err(IndexBadLength(sample_map.index_length, query'))
               ELSE IF mapped # {}
               THEN ~ret'.ok /\ \E q \in mapped : ret' = Err(IndexClash(q))
               ELSE /\ ret' = Ok(Sample(SampleNames[Len(sample_map.entries)], query'))
                    /\ InsertedEntries' = InsertedEntries
                                           \cup {SampleEntry(query', ret'.val[1])}]_vars

\* C30 witness: with two samples inserted, a query that has a base where the
\* index of the second sample has another base returns the second sample
C30_Witness ==
    /\ pc = "get_mut"
    /\ Len(sample_map.entries) = 3
    /\ Len(query) = sample_map.index_length
    /\ \E p \in 1..Len(query) :
          /\ sample_map.entries[3].true_index[p] \in {"A", "C", "G", "T"}
          /\ query[p] # sample_map.entries[3].true_index[p]
    /\ ret = Ok(sample_map.entries[3].thing)

====
